---- MODULE Spec2Model ----
(***************************************************************************)
(* Model of the orbit-server backend: the task state machine and its       *)
(* requirement sync (routes/task.js, routes/user.js), the permission gate  *)
(* (middleware/permission.js) and the session guard with its token issuer  *)
(* (middleware/auth.js, lib/auth.js, routes/auth.js).                      *)
(***************************************************************************)
EXTENDS Integers, Sequences, FiniteSets, TLC

VARIABLES
    tasks,          \* Task collection: task id -> document
    requirements,   \* Requirement collection: requirement id -> document
    resp,           \* the response being sent, with the request it answers
    gate,           \* the last run of a permission gate middleware
    sync,           \* the last call of syncRequirementStatus
    store,          \* Organization and User documents: principal id -> session fields
    now,            \* the server clock, in seconds
    ticks,          \* how many times the clock has advanced
    issued,         \* every token jsonwebtoken has signed so far
    logins,         \* principal -> refresh tokens of its latest successive logins
    sess,           \* the session response being sent, with the request it answers
    revoked,        \* the refresh tokens that completed logout requests carried
    roles,          \* Role documents: role id -> document
    members,        \* User documents: member id -> workspace, name, role, roleId
    flight,         \* requests in the middle of their handler: request id -> position and locals
    cache           \* the Redis permission cache: whether it is ready, and its entries

vars == <<tasks, requirements, resp, gate, sync, store, now, ticks, issued, logins, sess, revoked, roles, members, flight, cache>>

authVars == <<store, now, ticks, issued, logins, sess, revoked>>

roleVars == <<roles, members>>

raceVars == <<flight, cache>>

\* No request is in the middle of its handler and nothing is cached
RaceAtRest == flight = << >> /\ cache = [ready |-> TRUE, entries |-> << >>]

-----------------------------------------------------------------------------
(* Documents and identities                                                *)

\* Longest history ledger the model lets a task grow.
MaxHistory == 4

\* Distinct tokens issued in a run
MaxTokens == 4

\* Clock advances in a run
MaxTicks == 1

OrgIds == {"orgA", "orgB"}

\* Members (User documents) and the organization each belongs to.
UserIds == {"u1", "u2"}

\* The members whose requests the model sends (u2 only appears as an assignee)
Requesters == {"u1"}

UserOrg == [u \in UserIds |-> "orgA"]

\* Client documents and the organization each belongs to.
ClientIds == {"c1"}

ClientOrg == [c \in ClientIds |-> "orgA"]

TaskIds == {"t1"}

ReqIds == {"r1"}

\* A request body field that was not sent.
Missing == "<missing>"

\* models/task.model.js STATUSES
VALID_TASK_STATUSES == <<"TODO", "DOING", "READY_FOR_REVIEW", "SENT_TO_CLIENT", "REVISION", "DONE">>

\* models/requirement.model.js REQ_STATUSES
VALID_REQ_STATUSES == <<"OPEN", "IN_PROGRESS", "COMPLETED", "CLOSED">>

Range(s) == {s[i] : i \in 1..Len(s)}

\* transition.permission of an ungated edge
NoPermission == "null"

\* TRANSITIONS with a DONE task allowed back to TODO
TransitionsReopenDone ==
    [s \in Range(VALID_TASK_STATUSES) |->
        CASE s = "TODO" -> << [to |-> "DOING", permission |-> NoPermission] >>
          [] s = "DOING" -> << [to |-> "READY_FOR_REVIEW", permission |-> NoPermission] >>
          [] s = "READY_FOR_REVIEW" ->
                << [to |-> "SENT_TO_CLIENT", permission |-> "TASK_SEND_TO_CLIENT"],
                   [to |-> "REVISION", permission |-> "TASK_REVIEW"] >>
          [] s = "SENT_TO_CLIENT" ->
                << [to |-> "DONE", permission |-> "TASK_CLIENT_DECISION"],
                   [to |-> "REVISION", permission |-> "TASK_CLIENT_DECISION"] >>
          [] s = "REVISION" -> << [to |-> "DOING", permission |-> NoPermission] >>
          [] OTHER -> << [to |-> "TODO", permission |-> NoPermission] >>]

\* routes/task.js TRANSITIONS: status -> ordered list of {to, permission}
TRANSITIONS ==
    [s \in Range(VALID_TASK_STATUSES) |->
        CASE s = "TODO" -> << [to |-> "DOING", permission |-> NoPermission] >>
          [] s = "DOING" -> << [to |-> "READY_FOR_REVIEW", permission |-> NoPermission] >>
          [] s = "READY_FOR_REVIEW" ->
                << [to |-> "SENT_TO_CLIENT", permission |-> "TASK_SEND_TO_CLIENT"],
                   [to |-> "REVISION", permission |-> "TASK_REVIEW"] >>
          [] s = "SENT_TO_CLIENT" ->
                << [to |-> "DONE", permission |-> "TASK_CLIENT_DECISION"],
                   [to |-> "REVISION", permission |-> "TASK_CLIENT_DECISION"] >>
          [] s = "REVISION" -> << [to |-> "DOING", permission |-> NoPermission] >>
          [] OTHER -> << >>]

\* Array.prototype.find: the first element satisfying the test, or NotFound
NotFound == [to |-> "<none>", permission |-> "<none>"]

FindTransition(allowed, targetStatus) ==
    LET hits == {i \in 1..Len(allowed) : allowed[i].to = targetStatus}
    IN  IF hits = {} THEN NotFound
        ELSE allowed[CHOOSE i \in hits : \A j \in hits : i <= j]

-----------------------------------------------------------------------------
(* Request-scoped identity (req.user) and the permission gate              *)

\* req.user when no identity was established
NoUser == [id |-> Missing, role |-> Missing, permissions |-> {},
           organizationId |-> Missing, userType |-> Missing, clientId |-> Missing]

\* Permission keys read by the task routes (lib/permissions PERMISSIONS)
TaskPermKeys == {"PAGE_TASKS", "TASK_VIEW_ALL", "TASK_MOVE_OWN", "TASK_REVIEW",
                 "TASK_SEND_TO_CLIENT", "TASK_CLIENT_DECISION"}

\* buildUserPayload(org, "organization"): the owner's id is the organization's id
OwnerIdentity(org, perms) ==
    [id |-> org, role |-> "OWNER", permissions |-> perms,
     organizationId |-> org, userType |-> "organization", clientId |-> Missing]

\* buildUserPayload(user, "user")
MemberIdentity(u, perms) ==
    [id |-> u, role |-> "MEMBER", permissions |-> perms,
     organizationId |-> UserOrg[u], userType |-> "user", clientId |-> Missing]

\* the identity of a portal client, as routes/user.js reads it from req.user
ClientIdentity(c) ==
    [id |-> c, role |-> "CLIENT", permissions |-> {},
     organizationId |-> ClientOrg[c], userType |-> "client", clientId |-> c]

\* requirePermission without the owner bypass
RequirePermissionMissingOwnerBypass(user, required) ==
    IF user = NoUser THEN 401
    ELSE IF \E p \in required : p \in user.permissions THEN 0
    ELSE 403

\* middleware/permission.js requirePermission(...required): the status it
\* answers with, or 0 when it calls next()
RequirePermission(user, required) ==
    IF user = NoUser THEN 401
    ELSE IF user.role = "OWNER" THEN 0
    ELSE IF \E p \in required : p \in user.permissions THEN 0
    ELSE 403

\* requireAllPermissions testing with some() instead of every()
RequireAllPermissionsAsAny(user, required) ==
    IF user = NoUser THEN 401
    ELSE IF user.role = "OWNER" THEN 0
    ELSE IF \E p \in required : p \in user.permissions THEN 0
    ELSE 403

\* middleware/permission.js requireAllPermissions(...required)
RequireAllPermissions(user, required) ==
    IF user = NoUser THEN 401
    ELSE IF user.role = "OWNER" THEN 0
    ELSE IF \A p \in required : p \in user.permissions THEN 0
    ELSE 403

\* routes/user.js requireClient
RequireClient(user) ==
    IF user = NoUser \/ user.userType # "client" THEN 403 ELSE 0

-----------------------------------------------------------------------------
(* Requirement sync                                                         *)

\* A task id that names no document
NoTask == [status |-> "<absent>"]

InFlight == {"DOING", "READY_FOR_REVIEW", "SENT_TO_CLIENT", "REVISION"}

\* SyncOne without the guard on CLOSED requirements
SyncOneNoClosedGuard(req, tks) ==
    LET linkedTasks == {t \in req.linkedTaskIds : t \in DOMAIN tks /\ tks[t] # NoTask}
        allDone == linkedTasks # {} /\ \A t \in linkedTasks : tks[t].status = "DONE"
        anyInProgress == \E t \in linkedTasks : tks[t].status \in InFlight
    IN  IF allDone /\ req.status # "COMPLETED" THEN "COMPLETED"
        ELSE IF anyInProgress /\ req.status = "OPEN" THEN "IN_PROGRESS"
        ELSE IF anyInProgress /\ req.status = "COMPLETED" THEN "IN_PROGRESS"
        ELSE req.status

\* SyncOne without the branch that reopens a COMPLETED requirement
SyncOneNoReopen(req, tks) ==
    IF req.status = "CLOSED" THEN req.status
    ELSE
        LET linkedTasks == {t \in req.linkedTaskIds : t \in DOMAIN tks /\ tks[t] # NoTask}
            allDone == linkedTasks # {} /\ \A t \in linkedTasks : tks[t].status = "DONE"
            anyInProgress == \E t \in linkedTasks : tks[t].status \in InFlight
        IN  IF allDone /\ req.status # "COMPLETED" THEN "COMPLETED"
            ELSE IF anyInProgress /\ req.status = "OPEN" THEN "IN_PROGRESS"
            ELSE req.status

\* One iteration of the loop of syncRequirementStatus: the status the
\* requirement document has after it, given the task collection tks.
SyncOne(req, tks) ==
    IF req.status = "CLOSED" THEN req.status
    ELSE
        LET linkedTasks == {t \in req.linkedTaskIds : t \in DOMAIN tks /\ tks[t] # NoTask}
            allDone == linkedTasks # {} /\ \A t \in linkedTasks : tks[t].status = "DONE"
            anyInProgress == \E t \in linkedTasks : tks[t].status \in InFlight
        IN  IF allDone /\ req.status # "COMPLETED" THEN "COMPLETED"
            ELSE IF anyInProgress /\ req.status = "OPEN" THEN "IN_PROGRESS"
            ELSE IF anyInProgress /\ req.status = "COMPLETED" THEN "IN_PROGRESS"
            ELSE req.status

\* routes/task.js syncRequirementStatus(taskId, newTaskStatus)
SyncRequirementStatus(reqs, tks, taskId) ==
    [r \in DOMAIN reqs |->
        IF taskId \in reqs[r].linkedTaskIds
        THEN [reqs[r] EXCEPT !.status = SyncOne(reqs[r], tks)]
        ELSE reqs[r]]

\* Requirement.find({ linkedTaskIds: taskId }): the requirements the loop
\* of syncRequirementStatus is to visit
Matched(reqs, taskId) == {r \in DOMAIN reqs : taskId \in reqs[r].linkedTaskIds}

\* The requirement collection after a call whose loop completed the
\* iterations of `reached` only: a call that does not throw reaches every
\* matched requirement, a call that throws leaves the others as they were
SyncReached(reqs, tks, reached) ==
    [r \in DOMAIN reqs |->
        IF r \in reached
        THEN [reqs[r] EXCEPT !.status = SyncOne(reqs[r], tks)]
        ELSE reqs[r]]

\* The ways a call can run: to completion, or into an exception (of
\* Requirement.find, of Task.find or of req.save) after the iterations of
\* `reached`, in whatever order find returned the requirements
SyncRuns(reqs, taskId) ==
    {[failed |-> FALSE, reached |-> Matched(reqs, taskId)]}
    \cup {[failed |-> TRUE, reached |-> done] :
                done \in ((SUBSET Matched(reqs, taskId)) \ {Matched(reqs, taskId)}) \cup {{}}}

\* SavesOne without the test that the requirement is not COMPLETED already
SavesOneWheneverAllDone(req, tks) ==
    /\ req.status # "CLOSED"
    /\ LET linkedTasks == {t \in req.linkedTaskIds : t \in DOMAIN tks /\ tks[t] # NoTask}
           allDone == linkedTasks # {} /\ \A t \in linkedTasks : tks[t].status = "DONE"
           anyInProgress == \E t \in linkedTasks : tks[t].status \in InFlight
       IN  \/ allDone
           \/ anyInProgress /\ req.status = "OPEN"
           \/ anyInProgress /\ req.status = "COMPLETED"

\* One iteration of the loop calls req.save()
SavesOne(req, tks) ==
    /\ req.status # "CLOSED"
    /\ LET linkedTasks == {t \in req.linkedTaskIds : t \in DOMAIN tks /\ tks[t] # NoTask}
           allDone == linkedTasks # {} /\ \A t \in linkedTasks : tks[t].status = "DONE"
           anyInProgress == \E t \in linkedTasks : tks[t].status \in InFlight
       IN  \/ allDone /\ req.status # "COMPLETED"
           \/ anyInProgress /\ req.status = "OPEN"
           \/ anyInProgress /\ req.status = "COMPLETED"

SyncThrowsUncaught(run) == run.failed

\* syncRequirementStatus rejects: never, its whole body is inside try/catch
SyncThrows(run) == FALSE

\* No call of syncRequirementStatus has been made for the request at hand
NoSync ==
    [op |-> "none", taskId |-> Missing, failed |-> FALSE, reached |-> {},
     saved |-> {}, before |-> << >>, repeat |-> FALSE]

\* A call of syncRequirementStatus(taskId, ..) against the tasks tks, with
\* the requirement collection it met and the requirements it saved; repeat
\* says that the call before it was for the same task, ran to completion and
\* nothing was written in between
SyncCall(taskId, tks, run, repeat) ==
    [op |-> "sync", taskId |-> taskId, failed |-> run.failed, reached |-> run.reached,
     saved |-> {r \in run.reached : SavesOne(requirements[r], tks)},
     before |-> requirements, repeat |-> repeat]

-----------------------------------------------------------------------------
(* Task routes                                                              *)

\* The document Task.create stores in POST /api/tasks
NewTask(org, client, creator, assignees) ==
    [organizationId |-> org, clientId |-> client, assignedTo |-> assignees,
     status |-> "TODO", createdBy |-> creator, history |-> << >>]

\* FindTask without the organizationId in the filter
FindTaskAnyWorkspace(tks, taskId, org) ==
    IF taskId \in DOMAIN tks /\ tks[taskId] # NoTask THEN tks[taskId] ELSE NoTask

\* Task.findOne({ _id: taskId, organizationId })
FindTask(tks, taskId, org) ==
    IF taskId \in DOMAIN tks /\ tks[taskId] # NoTask /\ tks[taskId].organizationId = org
    THEN tks[taskId] ELSE NoTask

\* FindClientTask without the clientId in the filter
FindClientTaskAnyClient(tks, taskId, org, client) == FindTask(tks, taskId, org)

\* Task.findOne({ _id: taskId, organizationId, clientId })
FindClientTask(tks, taskId, org, client) ==
    IF FindTask(tks, taskId, org) # NoTask /\ tks[taskId].clientId = client
    THEN tks[taskId] ELSE NoTask

\* res.status(code).json(...), kept with the request it answers: the identity,
\* the body's taskId and status/decision, the document findOne returned and
\* the Task collection as it was when the handler started
Reply(op, user, taskId, target, code, kind, task) ==
    [op |-> op, user |-> user, taskId |-> taskId, target |-> target,
     code |-> code, kind |-> kind, task |-> task, before |-> tasks]

\* MayMove with the creator forgotten in the standard branch
MayMoveAssigneeOnly(user, task, transition) ==
    IF transition.permission # NoPermission
    THEN user.role = "OWNER" \/ transition.permission \in user.permissions
    ELSE \/ user.role = "OWNER"
         \/ "TASK_VIEW_ALL" \in user.permissions
         \/ ("TASK_MOVE_OWN" \in user.permissions /\ user.id \in task.assignedTo)

\* MayMove with the standard rule also applied to gated edges
MayMoveGateSkipped(user, task, transition) ==
    \/ user.role = "OWNER"
    \/ "TASK_VIEW_ALL" \in user.permissions
    \/ (transition.permission # NoPermission /\ transition.permission \in user.permissions)
    \/ ("TASK_MOVE_OWN" \in user.permissions
            /\ (user.id \in task.assignedTo \/ task.createdBy = user.id))

\* The permission check of POST /move on the found transition: TRUE when the
\* request may proceed to "Apply transition"
MayMove(user, task, transition) ==
    IF transition.permission # NoPermission
    THEN user.role = "OWNER" \/ transition.permission \in user.permissions
    ELSE
        LET canMoveAny == user.role = "OWNER" \/ "TASK_VIEW_ALL" \in user.permissions
            hasMoveOwn == "TASK_MOVE_OWN" \in user.permissions
            isAssigned == user.id \in task.assignedTo
            isCreator == task.createdBy = user.id
        IN  canMoveAny \/ ~(~hasMoveOwn \/ (~isAssigned /\ ~isCreator))

\* The history record POST /move pushes (its byName, note and at are not modelled)
MoveRecord(user, fromStatus, targetStatus) ==
    [from |-> fromStatus, to |-> targetStatus, by |-> user.id]

\* ApplyMove reading `from` after the status was overwritten
ApplyMoveFromAfter(task, user, targetStatus) ==
    [task EXCEPT !.status = targetStatus,
                 !.history = Append(@, MoveRecord(user, targetStatus, targetStatus))]

\* "Apply transition" of POST /move: the task document that is saved
ApplyMove(task, user, targetStatus) ==
    [task EXCEPT !.status = targetStatus,
                 !.history = Append(@, MoveRecord(user, task.status, targetStatus))]

\* router.post("/move", authenticate, requirePermission("PAGE_TASKS"), ...)
\* for the identity `user` that authenticate established
Move(user, taskId, targetStatus) ==
    LET guard == RequirePermission(user, {"PAGE_TASKS"})
        task == FindTask(tasks, taskId, user.organizationId)
        allowed == IF task = NoTask THEN << >> ELSE TRANSITIONS[task.status]
        transition == FindTransition(allowed, targetStatus)
        R(code, kind) == Reply("move", user, taskId, targetStatus, code, kind, task)
    IN  IF guard # 0 THEN
            /\ resp' = R(guard, "Forbidden")
            /\ UNCHANGED <<tasks, requirements, gate, sync, authVars, roleVars, raceVars>>
        ELSE IF taskId = Missing \/ targetStatus = Missing THEN
            /\ resp' = R(400, "ValidationError")
            /\ UNCHANGED <<tasks, requirements, gate, sync, authVars, roleVars, raceVars>>
        ELSE IF targetStatus \notin Range(VALID_TASK_STATUSES) THEN
            /\ resp' = R(400, "ValidationError")
            /\ UNCHANGED <<tasks, requirements, gate, sync, authVars, roleVars, raceVars>>
        ELSE IF task = NoTask THEN
            /\ resp' = R(404, "NotFound")
            /\ UNCHANGED <<tasks, requirements, gate, sync, authVars, roleVars, raceVars>>
        ELSE IF transition = NotFound THEN
            /\ resp' = R(400, "InvalidTransition")
            /\ UNCHANGED <<tasks, requirements, gate, sync, authVars, roleVars, raceVars>>
        ELSE IF ~MayMove(user, task, transition) THEN
            /\ resp' = R(403, "Forbidden")
            /\ UNCHANGED <<tasks, requirements, gate, sync, authVars, roleVars, raceVars>>
        ELSE
            /\ Len(task.history) < MaxHistory
            /\ tasks' = [tasks EXCEPT ![taskId] = ApplyMove(task, user, targetStatus)]
            /\ \E run \in SyncRuns(requirements, taskId) :
                    /\ requirements' = SyncReached(requirements, tasks', run.reached)
                    /\ sync' = SyncCall(taskId, tasks', run, FALSE)
                    /\ resp' = IF SyncThrows(run) THEN R(500, "InternalError")
                               ELSE R(200, "OK")
            /\ UNCHANGED <<gate, authVars, roleVars, raceVars>>

\* The history record POST /tasks/respond pushes
RespondRecord(user, newStatus) ==
    [from |-> "SENT_TO_CLIENT", to |-> newStatus, by |-> user.clientId]

\* ApplyRespond that records the decision but leaves the status alone
ApplyRespondKeepsStatus(task, user, newStatus) ==
    [task EXCEPT !.history = Append(@, RespondRecord(user, newStatus))]

\* The task document POST /tasks/respond saves
ApplyRespond(task, user, newStatus) ==
    [task EXCEPT !.history = Append(@, RespondRecord(user, newStatus)),
                 !.status = newStatus]

\* router.post("/tasks/respond", authenticate, requireClient, ...)
Respond(user, taskId, decision, note) ==
    LET guard == RequireClient(user)
        task == FindClientTask(tasks, taskId, user.organizationId, user.clientId)
        newStatus == IF decision = "DONE" THEN "DONE" ELSE "REVISION"
        R(code, kind) == Reply("respond", user, taskId, decision, code, kind, task)
    IN  IF guard # 0 THEN
            /\ resp' = R(guard, "Forbidden")
            /\ UNCHANGED <<tasks, requirements, gate, sync, authVars, roleVars, raceVars>>
        ELSE IF taskId = Missing
                \/ decision \notin {"DONE", "REVISION"}
                \/ (decision = "REVISION" /\ note = Missing) THEN
            /\ resp' = R(400, "ValidationError")
            /\ UNCHANGED <<tasks, requirements, gate, sync, authVars, roleVars, raceVars>>
        ELSE IF task = NoTask THEN
            /\ resp' = R(404, "NotFound")
            /\ UNCHANGED <<tasks, requirements, gate, sync, authVars, roleVars, raceVars>>
        ELSE IF task.status # "SENT_TO_CLIENT" THEN
            /\ resp' = R(400, "NotAwaitingReview")
            /\ UNCHANGED <<tasks, requirements, gate, sync, authVars, roleVars, raceVars>>
        ELSE
            /\ Len(task.history) < MaxHistory
            /\ tasks' = [tasks EXCEPT ![taskId] = ApplyRespond(task, user, newStatus)]
            /\ \E run \in SyncRuns(requirements, taskId) :
                    /\ requirements' = SyncReached(requirements, tasks', run.reached)
                    /\ sync' = SyncCall(taskId, tasks', run, FALSE)
                    /\ resp' = IF SyncThrows(run) THEN R(500, "InternalError")
                               ELSE R(200, "OK")
            /\ UNCHANGED <<gate, authVars, roleVars, raceVars>>

-----------------------------------------------------------------------------
(* Tokens, keys and the session fields of Organization and User documents   *)

\* The principals that can log in: one Organization (its owner) and one User
AuthOrgs == {"orgA"}

AuthUsers == {"u1"}

Principals == AuthOrgs \cup AuthUsers

\* expiresIn: "15m" of the access token, in seconds
ACCESS_TTL == 900

\* 2 * 60 * 60 * 1000 ms: the lifetime of a refresh token without rememberMe
REFRESH_TTL == 7200

\* 7 * 24 * 60 * 60 * 1000 ms: the lifetime of a refresh token with rememberMe
REMEMBER_TTL == 604800

\* A null key or token field, and a null date
NoKey == "null"

NoDate == 0 - 1

\* An RSA key pair is named after its owner: both halves carry the name
generateKeys(id) == [privateKey |-> id, publicKey |-> id]

\* A cookie that is not sent or a refreshToken field that is null, a cookie
\* that is no JWT at all, and a token signed by a key the server never
\* generated
NoToken ==
    [id |-> Missing, userType |-> Missing, role |-> Missing, iat |-> 0, exp |-> 0,
     key |-> "none"]

Garbage ==
    [id |-> Missing, userType |-> Missing, role |-> Missing, iat |-> 0, exp |-> 0,
     key |-> "garbage"]

Forged ==
    [id |-> "orgA", userType |-> Missing, role |-> "OWNER", iat |-> 0,
     exp |-> 2 * REMEMBER_TTL, key |-> "kX"]

\* A token that names the organization orgA and is signed with the private
\* key of the member u1
CrossSigned ==
    [id |-> "orgA", userType |-> "organization", role |-> "OWNER", iat |-> 0,
     exp |-> 2 * REMEMBER_TTL, key |-> "u1"]

\* buildUserPayload(entity, type); email and name never change here and
\* are left out
buildUserPayload(id, type) ==
    IF type = "user"
    THEN [id |-> id, role |-> "MEMBER", organizationId |-> UserOrg[id],
          userType |-> "user"]
    ELSE [id |-> id, role |-> "OWNER", organizationId |-> id,
          userType |-> "organization"]

\* jwt.sign(payload, privateKey, { algorithm: "RS256", expiresIn }) at second t:
\* iat is the clock's second, exp = iat + expiresIn, and the RS256 signature
\* is a function of the signed bytes and the key, so the token is a function
\* of these fields
jwtSign(payload, privateKey, expiresIn, t) ==
    [id |-> payload.id, userType |-> payload.userType, role |-> payload.role,
     iat |-> t, exp |-> t + expiresIn, key |-> privateKey]

\* jwt.decode(token)?.id: the claimed identifier, without verification
DecodedId(token) == IF token.key \in {"none", "garbage"} THEN Missing ELSE token.id

\* jwt.verify that checks the expiry and not the signature
jwtVerifyAnyKey(token, publicKey, t) ==
    /\ token.key \notin {"none", "garbage"}
    /\ t < token.exp

\* jwt.verify(token, publicKey, { algorithms: ["RS256"] }) does not throw
jwtVerify(token, publicKey, t) ==
    /\ token.key \notin {"none", "garbage"}
    /\ token.key = publicKey
    /\ t < token.exp

NoEntity == [id |-> Missing, type |-> Missing]

\* resolveEntity(decoded)
resolveEntity(decoded) ==
    IF decoded.userType = "user"
    THEN IF decoded.id \in AuthUsers THEN [id |-> decoded.id, type |-> "user"]
         ELSE NoEntity
    ELSE IF decoded.userType = "organization"
    THEN IF decoded.id \in AuthOrgs THEN [id |-> decoded.id, type |-> "organization"]
         ELSE NoEntity
    ELSE IF decoded.id \in AuthOrgs THEN [id |-> decoded.id, type |-> "organization"]
    ELSE IF decoded.id \in AuthUsers THEN [id |-> decoded.id, type |-> "user"]
    ELSE NoEntity

\* issueTokens(privateKey, payload, rememberMe) at second t, its two
\* Date.now() reads falling in the same millisecond, so that the refresh
\* token's expiresIn is the whole lifetime
issueTokens(privateKey, payload, rememberMe, t) ==
    LET refreshExpires == t + (IF rememberMe THEN REMEMBER_TTL ELSE REFRESH_TTL)
    IN  [accessToken |-> jwtSign(payload, privateKey, ACCESS_TTL, t),
         refreshToken |-> jwtSign(payload, privateKey, refreshExpires - t, t),
         refreshExpires |-> refreshExpires]

\* The session fields of a document nobody has logged in to
FreshEntity(keys) ==
    [privateKey |-> keys.privateKey, publicKey |-> keys.publicKey,
     refreshToken |-> NoToken, refreshTokenExpires |-> NoDate,
     rememberMe |-> FALSE]

NoKeys == [privateKey |-> NoKey, publicKey |-> NoKey]

-----------------------------------------------------------------------------
(* Session guard, login, verify and logout                                  *)

\* No session request is being answered
NoSess ==
    [op |-> "none", email |-> Missing, rememberMe |-> FALSE,
     accessToken |-> NoToken, refreshToken |-> NoToken,
     code |-> 0, message |-> "none", user |-> Missing, cookies |-> "none",
     path |-> "none", before |-> << >>, issuedBefore |-> {}, logins |-> << >>]

\* The session part when no session request has ever been made
AuthAtRest ==
    /\ store = [p \in Principals |-> FreshEntity(generateKeys(p))]
    /\ now = 0
    /\ ticks = 0
    /\ issued = {}
    /\ logins = [p \in Principals |-> << >>]
    /\ sess = NoSess
    /\ revoked = {}

\* The response of a session request, with the request and the state it met
Answer(op, email, rememberMe, accessToken, refreshToken, code, message, user, cookies, path) ==
    [op |-> op, email |-> email, rememberMe |-> rememberMe,
     accessToken |-> accessToken, refreshToken |-> refreshToken,
     code |-> code, message |-> message, user |-> user, cookies |-> cookies,
     path |-> path, before |-> store, issuedBefore |-> issued, logins |-> logins]

\* The last two refresh tokens of logins without rememberMe that followed
\* one another on a principal
NoteLogin(trail, rememberMe, refreshToken) ==
    IF rememberMe THEN << >>
    ELSE IF Len(trail) = 0 THEN <<refreshToken>>
    ELSE <<trail[Len(trail)], refreshToken>>

\* The login of routes/auth.js and loginEntity of lib/helpers.js: keys are
\* generated when missing, a token pair is issued and the session fields
\* are overwritten
loginEntity(entity, id, type, rememberMe, t) ==
    LET keys   == IF entity.privateKey = NoKey \/ entity.publicKey = NoKey
                  THEN generateKeys(id)
                  ELSE [privateKey |-> entity.privateKey, publicKey |-> entity.publicKey]
        tokens == issueTokens(keys.privateKey, buildUserPayload(id, type), rememberMe, t)
    IN  [entity |-> [privateKey |-> keys.privateKey, publicKey |-> keys.publicKey,
                     refreshToken |-> tokens.refreshToken,
                     refreshTokenExpires |-> tokens.refreshExpires,
                     rememberMe |-> rememberMe],
         tokens |-> tokens]

\* POST /login with { email, password, rememberMe }; the email is the
\* principal's id and passwordOk is bcrypt.compare's answer
Login(email, passwordOk, rememberMe) ==
    LET R(code, message, cookies) ==
            Answer("login", email, rememberMe, NoToken, NoToken, code, message,
                   Missing, cookies, "login")
    IN  IF email = Missing
        THEN /\ sess' = R(400, "Email and password are required", "none")
             /\ UNCHANGED <<store, now, ticks, issued, logins>>
        ELSE IF email \in Principals /\ passwordOk
        THEN LET type == IF email \in AuthOrgs THEN "organization" ELSE "user"
                 done == loginEntity(store[email], email, type, rememberMe, now)
             IN  /\ Cardinality(issued \cup {done.tokens.accessToken,
                                              done.tokens.refreshToken}) <= MaxTokens
                 /\ store' = [store EXCEPT ![email] = done.entity]
                 /\ issued' = issued \cup {done.tokens.accessToken, done.tokens.refreshToken}
                 /\ logins' = [logins EXCEPT ![email] =
                                  NoteLogin(@, rememberMe, done.tokens.refreshToken)]
                 /\ sess' = R(200, "Login successful", "set")
                 /\ UNCHANGED <<now, ticks>>
        ELSE /\ sess' = R(401, "Invalid email or password", "none")
             /\ UNCHANGED <<store, now, ticks, issued, logins>>

\* Step 1 of authenticate and of /verify reaches its session check: the
\* access token decodes, resolves to a principal with a public key and
\* verifies against it
AccessTokenVerifies(st, t, accessToken) ==
    /\ accessToken # NoToken
    /\ DecodedId(accessToken) # Missing
    /\ resolveEntity(accessToken) # NoEntity
    /\ st[resolveEntity(accessToken).id].publicKey # NoKey
    /\ jwtVerify(accessToken, st[resolveEntity(accessToken).id].publicKey, t)

SessionSupersededNever(entity, refreshToken) == FALSE

\* SessionSuperseded that compares only when the principal has a stored token
SessionSupersededWhenStored(entity, refreshToken) ==
    refreshToken # NoToken /\ entity.refreshToken # NoToken /\ entity.refreshToken # refreshToken

\* refreshToken && result.entity.refreshToken !== refreshToken
SessionSuperseded(entity, refreshToken) ==
    refreshToken # NoToken /\ entity.refreshToken # refreshToken

RefreshAcceptedAnySigned(entity, refreshToken, t) ==
    ~(entity.refreshTokenExpires = NoDate \/ entity.refreshTokenExpires < t)

\* The stored-session check of authenticate's refresh path passes
RefreshAccepted(entity, refreshToken, t) ==
    ~(\/ entity.refreshToken # refreshToken
      \/ entity.refreshTokenExpires = NoDate
      \/ entity.refreshTokenExpires < t)

VerifyRefreshAcceptedOwnToken(entity, refreshToken, t) ==
    ~(\/ entity.refreshToken.id # refreshToken.id
      \/ entity.refreshTokenExpires = NoDate
      \/ entity.refreshTokenExpires < t)

\* The stored-session check of /verify's refresh path passes
VerifyRefreshAccepted(entity, refreshToken, t) ==
    ~(\/ entity.refreshToken # refreshToken
      \/ entity.refreshTokenExpires = NoDate
      \/ entity.refreshTokenExpires < t)

\* Why step 2 stops before its stored-session check, or "" when it gets there
RefreshRefusal(st, t, refreshToken) ==
    IF refreshToken = NoToken THEN "No valid tokens"
    ELSE IF DecodedId(refreshToken) = Missing THEN "Invalid refresh token"
    ELSE IF \/ resolveEntity(refreshToken) = NoEntity
            \/ st[resolveEntity(refreshToken).id].publicKey = NoKey
            \/ st[resolveEntity(refreshToken).id].privateKey = NoKey
         THEN "User not found"
    ELSE IF ~jwtVerify(refreshToken, st[resolveEntity(refreshToken).id].publicKey, t)
         THEN "Authentication failed"
    ELSE ""

\* The rotation both refresh paths perform: a new pair under the recorded
\* rememberMe flag, stored on the principal
Rotate(who) ==
    LET entity == store[who.id]
        tokens == issueTokens(entity.privateKey, buildUserPayload(who.id, who.type),
                              entity.rememberMe, now)
    IN  /\ Cardinality(issued \cup {tokens.accessToken, tokens.refreshToken}) <= MaxTokens
        /\ store' = [store EXCEPT ![who.id] =
                        [@ EXCEPT !.refreshToken = tokens.refreshToken,
                                  !.refreshTokenExpires = tokens.refreshExpires]]
        /\ issued' = issued \cup {tokens.accessToken, tokens.refreshToken}
        /\ logins' = [logins EXCEPT ![who.id] = << >>]
        /\ UNCHANGED <<now, ticks>>

\* authenticate(req, res, next) with the cookies { accessToken, refreshToken };
\* code 0 is next()
Authenticate(accessToken, refreshToken) ==
    LET R(code, message, user, cookies, path) ==
            Answer("authenticate", Missing, FALSE, accessToken, refreshToken,
                   code, message, user, cookies, path)
        refusal == RefreshRefusal(store, now, refreshToken)
    IN  IF AccessTokenVerifies(store, now, accessToken)
        THEN LET who == resolveEntity(accessToken)
             IN  /\ sess' = IF SessionSuperseded(store[who.id], refreshToken)
                            THEN R(401, "Session invalidated", Missing, "cleared", "access")
                            ELSE R(0, "next", who.id, "none", "access")
                 /\ UNCHANGED <<store, now, ticks, issued, logins>>
        ELSE IF refusal # ""
        THEN /\ sess' = R(401, refusal, Missing, "cleared", "refresh")
             /\ UNCHANGED <<store, now, ticks, issued, logins>>
        ELSE LET who == resolveEntity(refreshToken)
             IN  IF ~RefreshAccepted(store[who.id], refreshToken, now)
                 THEN /\ sess' = R(401, "Refresh token expired", Missing, "cleared",
                                   "refresh")
                      /\ UNCHANGED <<store, now, ticks, issued, logins>>
                 ELSE /\ Rotate(who)
                      /\ sess' = R(0, "next", who.id, "set", "refresh")

\* POST /verify with the cookies { accessToken, refreshToken }
Verify(accessToken, refreshToken) ==
    LET R(message, user, cookies, path) ==
            Answer("verify", Missing, FALSE, accessToken, refreshToken,
                   200, message, user, cookies, path)
        refusal == RefreshRefusal(store, now, refreshToken)
    IN  IF accessToken = NoToken /\ refreshToken = NoToken
        THEN /\ sess' = R("authenticated: false", Missing, "cleared", "none")
             /\ UNCHANGED <<store, now, ticks, issued, logins>>
        ELSE IF AccessTokenVerifies(store, now, accessToken)
        THEN LET who == resolveEntity(accessToken)
             IN  /\ sess' = IF SessionSuperseded(store[who.id], refreshToken)
                            THEN R("authenticated: false", Missing, "cleared", "access")
                            ELSE R("authenticated: true", who.id, "none", "access")
                 /\ UNCHANGED <<store, now, ticks, issued, logins>>
        ELSE IF refusal # ""
        THEN /\ sess' = R("authenticated: false", Missing, "cleared", "refresh")
             /\ UNCHANGED <<store, now, ticks, issued, logins>>
        ELSE LET who == resolveEntity(refreshToken)
             IN  IF ~VerifyRefreshAccepted(store[who.id], refreshToken, now)
                 THEN /\ sess' = R("authenticated: false", Missing, "cleared", "refresh")
                      /\ UNCHANGED <<store, now, ticks, issued, logins>>
                 ELSE /\ Rotate(who)
                      /\ sess' = R("authenticated: true", who.id, "set", "refresh")

\* POST /logout with the cookie { refreshToken }: the Organization holding
\* that refresh token is signed out, or else the User holding it
Logout(refreshToken) ==
    LET orgs  == {o \in AuthOrgs : store[o].refreshToken = refreshToken}
        users == {u \in AuthUsers : store[u].refreshToken = refreshToken}
        hit   == IF refreshToken = NoToken THEN {}
                 ELSE IF orgs # {} THEN {CHOOSE o \in orgs : TRUE}
                 ELSE IF users # {} THEN {CHOOSE u \in users : TRUE}
                 ELSE {}
    IN  /\ store' = [p \in Principals |->
                        IF p \in hit
                        THEN [store[p] EXCEPT !.refreshToken = NoToken,
                                              !.refreshTokenExpires = NoDate,
                                              !.rememberMe = FALSE]
                        ELSE store[p]]
        /\ logins' = [p \in Principals |-> IF p \in hit THEN << >> ELSE logins[p]]
        /\ sess' = Answer("logout", Missing, FALSE, NoToken, refreshToken, 200,
                          "success", Missing, "cleared", "logout")
        /\ UNCHANGED <<now, ticks, issued>>

-----------------------------------------------------------------------------
(* Helpers shared by the routes                                             *)

\* The first gate of the chain that does not call next(), or 0
GateChain(user, gates) ==
    LET stops == {i \in 1..Len(gates) : RequirePermission(user, {gates[i]}) # 0}
    IN  IF stops = {} THEN 0
        ELSE RequirePermission(user, {gates[CHOOSE i \in stops : \A j \in stops : i <= j]})

\* String.prototype.trim on the strings the requests carry
Trim(str) ==
    CASE str = " New " -> "New"
      [] str = "  " -> ""
      [] OTHER -> str

-----------------------------------------------------------------------------
(* Roles: update, delete, assign, and the member update route               *)

RoleIds == {"rOwner", "rMember", "rCustom", "rOwnerB"}

\* Permission documents of the platform catalog
PermIds == {"p1", "p2"}

NoRole == [name |-> "<absent>"]

\* user.roleId = null
NoRoleId == "null"

\* The system roles as bootstrapOrgRoles upserts them
OwnerRole(org) ==
    [organizationId |-> org, name |-> "OWNER", permissions |-> PermIds, isSystem |-> TRUE]

MemberRole(org) ==
    [organizationId |-> org, name |-> "MEMBER", permissions |-> {"p1"}, isSystem |-> TRUE]

\* A role as POST /api/roles creates it
CustomRole(org, name, permissions) ==
    [organizationId |-> org, name |-> name, permissions |-> permissions \cap PermIds,
     isSystem |-> FALSE]

\* The roles of a bootstrapped workspace with one custom role, the OWNER
\* role of a second workspace, one member on the default role and one on
\* the custom role
RolesAtRest ==
    /\ roles = [r \in RoleIds |->
                  CASE r = "rOwner" -> OwnerRole("orgA")
                    [] r = "rMember" -> MemberRole("orgA")
                    [] r = "rCustom" -> CustomRole("orgA", "Manager", {"p1", "p2"})
                    [] OTHER -> OwnerRole("orgB")]
    /\ members = [u \in UserIds |->
                    [organizationId |-> UserOrg[u], name |-> "Ann", role |-> "MEMBER",
                     roleId |-> IF u = "u1" THEN "rMember" ELSE "rCustom"]]

\* Role.findOne({ _id: roleId, organizationId })
FindRole(rs, roleId, org) ==
    IF roleId \in DOMAIN rs /\ rs[roleId] # NoRole /\ rs[roleId].organizationId = org
    THEN rs[roleId] ELSE NoRole

\* User.findOne({ _id: userId, organizationId }) finds a member
FindsMember(ms, userId, org) == userId \in DOMAIN ms /\ ms[userId].organizationId = org

IsOwnerRoleNever(role) == FALSE

\* role.isSystem && role.name === "OWNER"
IsOwnerRole(role) == role.isSystem /\ role.name = "OWNER"

\* The response of a role or member request, with the request and the
\* collections it met
RoleReply(op, user, roleId, userId, body, code, kind) ==
    [op |-> op, user |-> user, roleId |-> roleId, userId |-> userId, body |-> body, code |-> code, kind |-> kind, before |-> roles, membersBefore |-> members]

\* router.post("/update", authenticate, requirePermission("PAGE_SETTINGS"),
\* requirePermission("ROLE_MANAGE"), ...) of routes/role.js with the body
\* { roleId, name, permissions }
RoleUpdate(user, roleId, name, permissions) ==
    LET guard == GateChain(user, <<"PAGE_SETTINGS", "ROLE_MANAGE">>)
        org == user.organizationId
        role == FindRole(roles, roleId, org)
        renames == name # Missing /\ ~role.isSystem
        dup == \E r \in DOMAIN roles \ {roleId} :
                    /\ roles[r] # NoRole
                    /\ roles[r].organizationId = org
                    /\ roles[r].name = Trim(name)
        saved == [role EXCEPT
                    !.name = IF renames THEN Trim(name) ELSE @,
                    !.permissions = IF permissions = {Missing} THEN @
                                    ELSE permissions \cap PermIds]
        R(code, kind) ==
            RoleReply("role/update", user, roleId, Missing, <<name, permissions>>, code, kind)
    IN  IF guard # 0 THEN
            /\ resp' = R(guard, "Forbidden")
            /\ UNCHANGED roleVars
        ELSE IF roleId = Missing THEN
            /\ resp' = R(400, "ValidationError")
            /\ UNCHANGED roleVars
        ELSE IF role = NoRole THEN
            /\ resp' = R(404, "NotFound")
            /\ UNCHANGED roleVars
        ELSE IF IsOwnerRole(role) THEN
            /\ resp' = R(403, "Forbidden")
            /\ UNCHANGED roleVars
        ELSE IF renames /\ Trim(name) = "" THEN
            /\ resp' = R(400, "ValidationError")
            /\ UNCHANGED roleVars
        ELSE IF renames /\ dup THEN
            /\ resp' = R(409, "Conflict")
            /\ UNCHANGED roleVars
        ELSE IF permissions = {"<not an array>"} THEN
            /\ resp' = R(400, "ValidationError")
            /\ UNCHANGED roleVars
        ELSE
            /\ roles' = [roles EXCEPT ![roleId] = saved]
            /\ resp' = R(200, "OK")
            /\ UNCHANGED members

\* router.post("/delete", ...) of routes/role.js with the body { roleId }
RoleDelete(user, roleId) ==
    LET guard == GateChain(user, <<"PAGE_SETTINGS", "ROLE_MANAGE">>)
        org == user.organizationId
        role == FindRole(roles, roleId, org)
        memberRoles == {r \in DOMAIN roles :
                            /\ roles[r] # NoRole
                            /\ roles[r].organizationId = org
                            /\ roles[r].name = "MEMBER"
                            /\ roles[r].isSystem}
        R(code, kind) == RoleReply("role/delete", user, roleId, Missing, << >>, code, kind)
    IN  IF guard # 0 THEN
            /\ resp' = R(guard, "Forbidden")
            /\ UNCHANGED roleVars
        ELSE IF roleId = Missing THEN
            /\ resp' = R(400, "ValidationError")
            /\ UNCHANGED roleVars
        ELSE IF role = NoRole THEN
            /\ resp' = R(404, "NotFound")
            /\ UNCHANGED roleVars
        ELSE IF role.isSystem THEN
            /\ resp' = R(403, "Forbidden")
            /\ UNCHANGED roleVars
        ELSE
            /\ members' = IF memberRoles = {} THEN members
                          ELSE [u \in DOMAIN members |->
                                  IF members[u].organizationId = org /\ members[u].roleId = roleId
                                  THEN [members[u] EXCEPT !.roleId = CHOOSE r \in memberRoles : TRUE]
                                  ELSE members[u]]
            /\ roles' = [roles EXCEPT ![roleId] = NoRole]
            /\ resp' = R(200, "OK")

\* router.post("/assign", ...) of routes/role.js with the body { userId, roleId }
RoleAssign(user, userId, roleId) ==
    LET guard == GateChain(user, <<"PAGE_SETTINGS", "ROLE_MANAGE">>)
        org == user.organizationId
        role == FindRole(roles, roleId, org)
        R(code, kind) == RoleReply("role/assign", user, roleId, userId, << >>, code, kind)
    IN  IF guard # 0 THEN
            /\ resp' = R(guard, "Forbidden")
            /\ UNCHANGED roleVars
        ELSE IF userId = Missing \/ roleId = Missing THEN
            /\ resp' = R(400, "ValidationError")
            /\ UNCHANGED roleVars
        ELSE IF role = NoRole THEN
            /\ resp' = R(404, "NotFound")
            /\ UNCHANGED roleVars
        ELSE IF IsOwnerRole(role) THEN
            /\ resp' = R(403, "Forbidden")
            /\ UNCHANGED roleVars
        ELSE IF ~FindsMember(members, userId, org) THEN
            /\ resp' = R(404, "NotFound")
            /\ UNCHANGED roleVars
        ELSE
            /\ members' = [members EXCEPT ![userId].roleId = roleId]
            /\ resp' = R(200, "OK")
            /\ UNCHANGED roles

\* router.post("/update", authenticate, requirePermission("PAGE_SETTINGS"),
\* requirePermission("USER_INVITE"), ...) of routes/user.js with the body
\* { userId, name, role, roleId }; a roleId of null is NoRoleId, an absent
\* field is Missing
UserUpdate(user, userId, name, role, roleId) ==
    LET guard == GateChain(user, <<"PAGE_SETTINGS", "USER_INVITE">>)
        org == user.organizationId
        roleDoc == FindRole(roles, roleId, org)
        saved == [members[userId] EXCEPT
                    !.name = IF name = Missing THEN @ ELSE Trim(name),
                    !.role = IF role = Missing THEN @ ELSE role,
                    !.roleId = IF roleId = Missing THEN @ ELSE roleId]
        R(code, kind) ==
            RoleReply("user/update", user, roleId, userId, <<name, role>>, code, kind)
    IN  IF guard # 0 THEN
            /\ resp' = R(guard, "Forbidden")
            /\ UNCHANGED roleVars
        ELSE IF userId = Missing THEN
            /\ resp' = R(400, "ValidationError")
            /\ UNCHANGED roleVars
        ELSE IF ~FindsMember(members, userId, org) THEN
            /\ resp' = R(404, "NotFound")
            /\ UNCHANGED roleVars
        ELSE IF name # Missing /\ Trim(name) = "" THEN
            /\ resp' = R(400, "ValidationError")
            /\ UNCHANGED roleVars
        ELSE IF role # Missing /\ role # "MEMBER" THEN
            /\ resp' = R(400, "ValidationError")
            /\ UNCHANGED roleVars
        ELSE IF roleId \notin {Missing, NoRoleId} /\ roleDoc = NoRole THEN
            /\ resp' = R(404, "NotFound")
            /\ UNCHANGED roleVars
        ELSE IF roleId \notin {Missing, NoRoleId} /\ IsOwnerRole(roleDoc) THEN
            /\ resp' = R(403, "Forbidden")
            /\ UNCHANGED roleVars
        ELSE
            /\ members' = [members EXCEPT ![userId] = saved]
            /\ resp' = R(200, "OK")
            /\ UNCHANGED roles

-----------------------------------------------------------------------------
(* The task workflow as a state machine                                     *)

\* Identities that authenticate can establish for a staff request
StaffIdentities ==
    {OwnerIdentity(o, {}) : o \in OrgIds}
    \cup {MemberIdentity(u, ps) : u \in Requesters, ps \in SUBSET TaskPermKeys}

ClientIdentities == {ClientIdentity(c) : c \in ClientIds}

\* The clients that use the portal: c1, whose tasks these are, and c2, a
\* client of the same workspace without tasks
PortalIdentities ==
    ClientIdentities \cup {[ClientIdentity(c) EXCEPT !.id = "c2", !.clientId = "c2"] : c \in ClientIds}

\* Request bodies of POST /move: { taskId, status }
MoveBodies ==
    (TaskIds \X (Range(VALID_TASK_STATUSES) \cup {"ARCHIVED", Missing}))
    \cup {<<"t404", "DOING">>, <<Missing, "DOING">>}

\* Request bodies of POST /tasks/respond: { taskId, decision, note }
RespondBodies ==
    (TaskIds \X {"DONE", "REVISION", "TODO", Missing} \X {Missing, "see comments"})
    \cup {<<"t404", "DONE", Missing>>, <<Missing, "DONE", Missing>>}

NoResp ==
    [op |-> "none", user |-> NoUser, taskId |-> Missing, target |-> Missing,
     code |-> 0, kind |-> "none", task |-> NoTask, before |-> << >>]

NoGate == [mode |-> "none", user |-> NoUser, required |-> {}, code |-> 0]

\* Tasks as POST /api/tasks leaves them, in the workspace orgA for client c1;
\* requirements as the portal and the link step of POST /api/tasks leave them.
InitTask ==
    /\ tasks \in [TaskIds -> {NewTask("orgA", "c1", creator, assignees) :
                                creator \in {"orgA"} \cup Requesters,
                                assignees \in SUBSET UserIds}]
    /\ requirements \in [ReqIds -> {[organizationId |-> "orgA", clientId |-> "c1",
                                     status |-> st, linkedTaskIds |-> TaskIds] :
                                        st \in {"OPEN", "IN_PROGRESS", "CLOSED"}}]
    /\ resp = NoResp
    /\ gate = NoGate
    /\ sync = NoSync
    /\ RaceAtRest
    /\ RolesAtRest
    /\ AuthAtRest

\* One request is handled at a time: a handler runs when the previous
\* response has been sent.
MoveAction ==
    /\ resp = NoResp
    /\ \E user \in StaffIdentities \cup ClientIdentities, body \in MoveBodies :
            Move(user, body[1], body[2])

RespondAction ==
    /\ resp = NoResp
    /\ \E user \in PortalIdentities \cup {OwnerIdentity("orgA", {})},
          body \in RespondBodies :
            Respond(user, body[1], body[2], body[3])

\* res.json(...) has been sent; the request is over
Deliver ==
    /\ resp # NoResp
    /\ resp' = NoResp
    /\ sync' = NoSync
    /\ UNCHANGED <<tasks, requirements, gate, authVars, roleVars, raceVars>>

NextTask == MoveAction \/ RespondAction \/ Deliver

SpecTask == InitTask /\ [][NextTask]_vars

-----------------------------------------------------------------------------
(* Properties of the task state machine                                     *)

\* The transition table as the specification states it
UngatedEdges == {<<"TODO", "DOING">>, <<"DOING", "READY_FOR_REVIEW">>, <<"REVISION", "DOING">>}

GatedEdgePermission ==
    [e \in {<<"READY_FOR_REVIEW", "SENT_TO_CLIENT">>, <<"READY_FOR_REVIEW", "REVISION">>,
            <<"SENT_TO_CLIENT", "DONE">>, <<"SENT_TO_CLIENT", "REVISION">>} |->
        IF e = <<"READY_FOR_REVIEW", "SENT_TO_CLIENT">> THEN "TASK_SEND_TO_CLIENT"
        ELSE IF e = <<"READY_FOR_REVIEW", "REVISION">> THEN "TASK_REVIEW"
        ELSE "TASK_CLIENT_DECISION"]

GatedEdges == DOMAIN GatedEdgePermission

TableEdges == UngatedEdges \cup GatedEdges

\* The pending response answers a move request that named a task of the
\* requester's own workspace and a target among the six statuses
MoveOnOwnTask ==
    /\ resp.op = "move"
    /\ resp.taskId \in TaskIds
    /\ resp.before[resp.taskId].organizationId = resp.user.organizationId
    /\ resp.target \in Range(VALID_TASK_STATUSES)

MoveEdge == <<resp.before[resp.taskId].status, resp.target>>

\* the requester passes the route's PAGE_TASKS gate
PassesPageTasks == resp.user.role = "OWNER" \/ "PAGE_TASKS" \in resp.user.permissions

MoveApplied == resp.code = 200 /\ tasks[resp.taskId].status = resp.target

C2_OneHistoryRecord ==
    resp.op \in {"move", "respond"} =>
        IF resp.code = 200
        THEN LET old == resp.before[resp.taskId]
                 new == tasks[resp.taskId]
             IN  /\ Len(new.history) = Len(old.history) + 1
                 /\ SubSeq(new.history, 1, Len(old.history)) = old.history
                 /\ new.history[Len(new.history)].from = old.status
                 /\ new.history[Len(new.history)].to = new.status
                 /\ new.status # old.status
                 /\ \A t \in TaskIds \ {resp.taskId} : tasks[t] = resp.before[t]
        ELSE tasks = resp.before

C2_Witness ==
    /\ resp.op = "respond"
    /\ resp.code = 200
    /\ Len(tasks[resp.taskId].history) = MaxHistory
    /\ tasks[resp.taskId].history[MaxHistory].from = "SENT_TO_CLIENT"
    /\ tasks[resp.taskId].history[MaxHistory].to = "DONE"

\* who may apply an ungated standard move, as the specification states it
StandardMoveAllowed ==
    LET u == resp.user
        t == resp.before[resp.taskId]
    IN  \/ u.role = "OWNER"
        \/ "TASK_VIEW_ALL" \in u.permissions
        \/ ("TASK_MOVE_OWN" \in u.permissions /\ (t.createdBy = u.id \/ u.id \in t.assignedTo))

C4_GatedEdgeForbidden ==
    (MoveOnOwnTask /\ MoveEdge \in GatedEdges)
        => /\ (resp.user.role # "OWNER"
                    /\ GatedEdgePermission[MoveEdge] \notin resp.user.permissions)
                => (resp.code = 403 /\ resp.kind = "Forbidden" /\ tasks = resp.before)
           /\ resp.user.role = "OWNER" => MoveApplied

C4_Witness ==
    /\ MoveOnOwnTask
    /\ MoveEdge = <<"READY_FOR_REVIEW", "SENT_TO_CLIENT">>
    /\ resp.user.permissions = {"PAGE_TASKS", "TASK_MOVE_OWN"}
    /\ resp.user.id \in resp.before[resp.taskId].assignedTo
    /\ resp.code = 403
    /\ tasks = resp.before

\* The client linked to the task answers DONE while the task awaits its review
ClientApproves ==
    /\ resp.op = "respond"
    /\ resp.user.userType = "client"
    /\ resp.target = "DONE"
    /\ resp.taskId \in TaskIds
    /\ resp.before[resp.taskId].organizationId = resp.user.organizationId
    /\ resp.before[resp.taskId].clientId = resp.user.clientId
    /\ resp.before[resp.taskId].status = "SENT_TO_CLIENT"

C17_SyncFailureNotFatal ==
    (resp.op \in {"move", "respond"} /\ sync.op = "sync" /\ sync.failed) =>
        LET old == resp.before[resp.taskId]
            new == tasks[resp.taskId]
        IN  /\ resp.code = 200
            /\ new.status = (IF resp.op = "move" THEN resp.target
                             ELSE IF resp.target = "DONE" THEN "DONE" ELSE "REVISION")
            /\ Len(new.history) = Len(old.history) + 1
            /\ new.history[Len(new.history)].from = old.status
            /\ new.history[Len(new.history)].to = new.status

C17_Witness ==
    /\ resp.op = "move"
    /\ resp.code = 200
    /\ sync.op = "sync"
    /\ sync.failed
    /\ tasks[resp.taskId].status = "DOING"
    /\ resp.before[resp.taskId].status = "TODO"
    /\ \E r \in DOMAIN requirements :
            /\ resp.taskId \in requirements[r].linkedTaskIds
            /\ requirements[r].status = "OPEN"

-----------------------------------------------------------------------------
(* The requirement sync on its own                                          *)

SyncTaskIds == {"t1", "t2"}

SyncReqIds == {"r1", "r2"}

\* The moves that take a new task to each status
PathTo ==
    [s \in Range(VALID_TASK_STATUSES) |->
        CASE s = "TODO" -> << >>
          [] s = "DOING" -> <<"DOING">>
          [] s = "READY_FOR_REVIEW" -> <<"DOING", "READY_FOR_REVIEW">>
          [] s = "SENT_TO_CLIENT" -> <<"DOING", "READY_FOR_REVIEW", "SENT_TO_CLIENT">>
          [] s = "REVISION" -> <<"DOING", "READY_FOR_REVIEW", "REVISION">>
          [] OTHER -> <<"DOING", "READY_FOR_REVIEW", "SENT_TO_CLIENT", "DONE">>]

RECURSIVE Walk(_, _, _)
\* The task after the owner has moved it along the path
Walk(task, user, path) ==
    IF path = << >> THEN task
    ELSE Walk(ApplyMove(task, user, Head(path)), user, Tail(path))

\* A task of workspace orgA that the owner created and moved to the status
TaskAt(status) ==
    Walk(NewTask("orgA", "c1", "orgA", {}), OwnerIdentity("orgA", {}), PathTo[status])

\* The collections as a transition leaves them when it calls the sync: tasks
\* in any status, requirements in any status linked to any of the tasks
InitSync ==
    /\ tasks \in [SyncTaskIds -> {TaskAt(s) : s \in Range(VALID_TASK_STATUSES)}]
    /\ requirements \in [SyncReqIds ->
            {[organizationId |-> "orgA", clientId |-> "c1", status |-> st,
              linkedTaskIds |-> linked] :
                st \in Range(VALID_REQ_STATUSES), linked \in SUBSET SyncTaskIds}]
    /\ resp = NoResp
    /\ gate = NoGate
    /\ sync = NoSync
    /\ RaceAtRest
    /\ RolesAtRest
    /\ AuthAtRest

\* syncRequirementStatus(taskId, newTaskStatus)
SyncAction ==
    /\ \E taskId \in SyncTaskIds \cup {"t404"} :
        \E run \in SyncRuns(requirements, taskId) :
            /\ requirements' = SyncReached(requirements, tasks, run.reached)
            /\ sync' = SyncCall(taskId, tasks, run,
                                sync.op = "sync" /\ sync.taskId = taskId /\ ~sync.failed)
    /\ UNCHANGED <<tasks, resp, gate, authVars, roleVars, raceVars>>

NextSync == SyncAction

SpecSync == InitSync /\ [][NextSync]_vars

\* C12: a requirement that is CLOSED when the sync runs is CLOSED after it,
\* whatever the statuses of its linked tasks are.
C12_ClosedStaysClosed ==
    sync.op = "sync" =>
        \A r \in DOMAIN requirements :
            sync.before[r].status = "CLOSED" => requirements[r].status = "CLOSED"

C12_Witness ==
    /\ sync.op = "sync"
    /\ ~sync.failed
    /\ \E r \in DOMAIN requirements :
            /\ sync.before[r].status = "CLOSED"
            /\ requirements[r].linkedTaskIds = {sync.taskId}
            /\ tasks[sync.taskId].status = "DONE"
            /\ r \in sync.reached
            /\ requirements[r].status = "CLOSED"

\* C13: a second call of the sync for the same task, right after a first
\* call that ran to its end, leaves every requirement as the first call left
\* it and saves nothing.
C13_SyncIdempotent ==
    (sync.op = "sync" /\ sync.repeat /\ ~sync.failed) =>
        /\ requirements = sync.before
        /\ sync.saved = {}

C13_Witness ==
    /\ sync.op = "sync"
    /\ sync.repeat
    /\ ~sync.failed
    /\ \E r \in sync.reached :
            /\ requirements[r].status = "COMPLETED"
            /\ \A t \in requirements[r].linkedTaskIds : tasks[t].status = "DONE"
    /\ requirements = sync.before

\* C14: after a sync that ran to its end, every requirement that references
\* the synced task and was not CLOSED is COMPLETED if it has a linked task
\* and all its linked tasks are DONE, otherwise IN_PROGRESS if one of them is
\* DOING, READY_FOR_REVIEW, SENT_TO_CLIENT or REVISION, otherwise as it was;
\* every other requirement is as it was, and a requirement without linked
\* tasks is not set to COMPLETED.
C14_SyncRule ==
    (sync.op = "sync" /\ ~sync.failed) =>
        \A r \in DOMAIN requirements :
            LET was      == sync.before[r].status
                linked   == sync.before[r].linkedTaskIds
                allDone  == linked # {} /\ \A t \in linked : tasks[t].status = "DONE"
                inFlight == \E t \in linked :
                                tasks[t].status \in {"DOING", "READY_FOR_REVIEW",
                                                     "SENT_TO_CLIENT", "REVISION"}
            IN  /\ (sync.taskId \in linked /\ was # "CLOSED") =>
                        requirements[r].status =
                            (IF allDone THEN "COMPLETED"
                             ELSE IF inFlight THEN "IN_PROGRESS"
                             ELSE was)
                /\ sync.taskId \notin linked => requirements[r].status = was
                /\ (linked = {} /\ was # "COMPLETED") => requirements[r].status # "COMPLETED"

C14_Witness ==
    /\ sync.op = "sync"
    /\ ~sync.failed
    /\ \E r \in DOMAIN requirements :
            /\ sync.before[r].status = "COMPLETED"
            /\ sync.before[r].linkedTaskIds = SyncTaskIds
            /\ tasks["t1"].status = "DONE"
            /\ tasks["t2"].status = "REVISION"
            /\ sync.taskId = "t2"
            /\ requirements[r].status = "IN_PROGRESS"

-----------------------------------------------------------------------------
(* The permission gate on its own                                           *)

\* Permission keys the gate runs are drawn from
GatePermKeys == {"PAGE_TASKS", "TASK_DELETE", "ROLE_MANAGE"}

\* req.user as the gate can find it: absent, an owner, a member or a client,
\* with any resolved permission set
GateIdentities ==
    {NoUser}
    \cup {OwnerIdentity(o, ps) : o \in {"orgA"}, ps \in SUBSET GatePermKeys}
    \cup {MemberIdentity(u, ps) : u \in Requesters, ps \in SUBSET GatePermKeys}
    \cup ClientIdentities

InitGate ==
    /\ tasks = << >>
    /\ requirements = << >>
    /\ resp = NoResp
    /\ gate = NoGate
    /\ sync = NoSync
    /\ RaceAtRest
    /\ RolesAtRest
    /\ AuthAtRest

\* requirePermission(...required)(req, res, next)
GateAny ==
    /\ \E user \in GateIdentities, required \in SUBSET GatePermKeys :
            gate' = [mode |-> "any", user |-> user, required |-> required,
                     code |-> RequirePermission(user, required)]
    /\ UNCHANGED <<tasks, requirements, resp, sync, authVars, roleVars, raceVars>>

\* requireAllPermissions(...required)(req, res, next)
GateAll ==
    /\ \E user \in GateIdentities, required \in SUBSET GatePermKeys :
            gate' = [mode |-> "all", user |-> user, required |-> required,
                     code |-> RequireAllPermissions(user, required)]
    /\ UNCHANGED <<tasks, requirements, resp, sync, authVars, roleVars, raceVars>>

NextGate == GateAny \/ GateAll

SpecGate == InitGate /\ [][NextGate]_vars

\* next() was called: the guarded handler runs
GatePassed == gate.code = 0

\* C5: for an Owner identity the gate calls next() in both modes, whatever
\* permissions are required and whatever the identity's own set holds.
C5_OwnerAlwaysPasses ==
    (gate.mode \in {"any", "all"} /\ gate.user.userType = "organization") => GatePassed

C5_Witness ==
    /\ gate.mode = "all"
    /\ gate.user.userType = "organization"
    /\ gate.user.permissions = {}
    /\ gate.required = GatePermKeys
    /\ GatePassed

\* C6: for an authenticated identity that is not Owner the gate calls next()
\* exactly when the resolved set holds at least one required key (any-of) or
\* every required key (all-of); otherwise it answers 403, never 401, and
\* next() is not called.
C6_NonOwnerGate ==
    (gate.mode \in {"any", "all"} /\ gate.user # NoUser /\ gate.user.role # "OWNER")
        => /\ GatePassed <=>
                IF gate.mode = "any"
                THEN gate.required \cap gate.user.permissions # {}
                ELSE gate.required \subseteq gate.user.permissions
           /\ ~GatePassed => gate.code = 403

C6_Witness ==
    /\ gate.mode = "all"
    /\ gate.user.role = "MEMBER"
    /\ gate.user.permissions = {"PAGE_TASKS"}
    /\ gate.required = {"PAGE_TASKS", "TASK_DELETE"}
    /\ gate.code = 403

-----------------------------------------------------------------------------
(* The session guard as a state machine                                     *)

\* How far the clock moves between two requests: within the same second it
\* does not move at all; otherwise by a second, by the life of an access
\* token or by the life of a refresh token
TickSteps == {1, ACCESS_TTL, REFRESH_TTL}

\* Cookies a request can carry: nothing, junk, a forgery, or any token the
\* server has issued
Presentable == issued \cup {NoToken, Garbage, Forged}

\* As the access cookie, junk and a token signed with a wrong key both fall
\* through to step 2; the wrongly signed one goes the longer way, and the
\* one signed with another principal's key puts the signature check to the
\* test where no stored value is compared
AccessCookies == issued \cup {NoToken, CrossSigned}

\* Documents as registration and invitation leave them; a User record may
\* also be an older one without keys
InitAuth ==
    /\ tasks = << >>
    /\ requirements = << >>
    /\ resp = NoResp
    /\ gate = NoGate
    /\ sync = NoSync
    /\ RaceAtRest
    /\ RolesAtRest
    /\ \E legacy \in SUBSET AuthUsers :
            store = [p \in Principals |->
                        IF p \in legacy THEN FreshEntity(NoKeys)
                        ELSE FreshEntity(generateKeys(p))]
    /\ now = 0
    /\ ticks = 0
    /\ issued = {}
    /\ logins = [p \in Principals |-> << >>]
    /\ sess = NoSess
    /\ revoked = {}

LoginAction ==
    /\ sess = NoSess
    /\ \E email \in Principals \cup {"nobody", Missing},
          passwordOk \in BOOLEAN, rememberMe \in BOOLEAN :
            Login(email, passwordOk, rememberMe)
    /\ UNCHANGED <<tasks, requirements, resp, gate, sync, revoked, roleVars, raceVars>>

AuthenticateAction ==
    /\ sess = NoSess
    /\ \E accessToken \in AccessCookies, refreshToken \in Presentable :
            Authenticate(accessToken, refreshToken)
    /\ UNCHANGED <<tasks, requirements, resp, gate, sync, revoked, roleVars, raceVars>>

VerifyAction ==
    /\ sess = NoSess
    /\ \E accessToken \in AccessCookies, refreshToken \in Presentable :
            Verify(accessToken, refreshToken)
    /\ UNCHANGED <<tasks, requirements, resp, gate, sync, revoked, roleVars, raceVars>>

LogoutAction ==
    /\ sess = NoSess
    /\ \E refreshToken \in Presentable : Logout(refreshToken)
    /\ UNCHANGED <<tasks, requirements, resp, gate, sync, revoked, roleVars, raceVars>>

\* The clock advances between requests
Tick ==
    /\ sess = NoSess
    /\ ticks < MaxTicks
    /\ \E d \in TickSteps : now' = now + d
    /\ ticks' = ticks + 1
    /\ UNCHANGED <<tasks, requirements, resp, gate, sync, store, issued, logins, sess, revoked, roleVars, raceVars>>

\* The response has been sent; the request is over
SessionDeliver ==
    /\ sess # NoSess
    /\ sess' = NoSess
    /\ UNCHANGED <<tasks, requirements, resp, gate, sync, store, now, ticks, issued, logins, revoked, roleVars, raceVars>>

NextAuth ==
    \/ LoginAction
    \/ AuthenticateAction
    \/ VerifyAction
    \/ LogoutAction
    \/ Tick
    \/ SessionDeliver

SpecAuth == InitAuth /\ [][NextAuth]_vars

-----------------------------------------------------------------------------
(* Properties of the session guard                                          *)

\* The request being answered went through a refresh path with a refresh
\* cookie
RefreshAttempt ==
    /\ sess.op \in {"authenticate", "verify"}
    /\ sess.path = "refresh"
    /\ sess.refreshToken # NoToken

\* ... and the refresh path established an identity and set new cookies
RefreshSucceeded == RefreshAttempt /\ sess.user # Missing

\* The principal logged in twice in succession without rememberMe and the
\* session guard is answering a request that carries the first login's
\* refresh token
StaleLoginPresented(p) ==
    /\ sess.op = "authenticate"
    /\ Len(sess.logins[p]) = 2
    /\ sess.refreshToken = sess.logins[p][1]

\* C7 as stated: two logins in succession with rememberMe=false and then the
\* first login's refresh token give the SessionInvalidated outcome.
C7_AsStated ==
    \A p \in Principals :
        StaleLoginPresented(p) => sess.message = "Session invalidated"

\* C7: after two logins in succession with rememberMe=false, a request with
\* the first login's refresh token gets SessionInvalidated exactly when it
\* also carries an access token that verifies and the refresh token stored on
\* that token's principal differs from the presented one; without a verifying
\* access token a stale value gets a generic 401, never SessionInvalidated.
C7_SessionInvalidatedWithAccessToken ==
    \A p \in Principals :
        StaleLoginPresented(p) =>
            LET viaAccess == AccessTokenVerifies(sess.before, now, sess.accessToken)
                holder    == resolveEntity(sess.accessToken).id
            IN  /\ (sess.message = "Session invalidated") <=>
                        (viaAccess /\ sess.before[holder].refreshToken # sess.refreshToken)
                /\ (~viaAccess /\ sess.before[p].refreshToken # sess.refreshToken) =>
                        (sess.code = 401 /\ sess.message # "Session invalidated"
                         /\ sess.cookies = "cleared")

C7_Witness ==
    \E p \in Principals :
        /\ StaleLoginPresented(p)
        /\ sess.accessToken.id = p
        /\ sess.accessToken.iat = sess.refreshToken.iat
        /\ sess.before[p].refreshToken # sess.refreshToken
        /\ sess.before[p].rememberMe = FALSE
        /\ sess.code = 401
        /\ sess.message = "Session invalidated"
        /\ sess.cookies = "cleared"

\* Step 2 of authenticate would accept the token in this state
PassesRefreshValidation(st, t, token) ==
    /\ RefreshRefusal(st, t, token) = ""
    /\ RefreshAccepted(st[resolveEntity(token).id], token, t)

\* C8: at every moment the only token that passes refresh validation for a
\* principal is the value stored on its record; every other issued value is
\* rejected, and a refresh that succeeded presented the stored value.
C8_OnlyStoredTokenValid ==
    /\ \A token \in issued \cup {Garbage, Forged} :
            PassesRefreshValidation(store, now, token) =>
                token = store[resolveEntity(token).id].refreshToken
    /\ \A p \in Principals :
            Cardinality({token \in issued :
                            /\ resolveEntity(token).id = p
                            /\ PassesRefreshValidation(store, now, token)}) <= 1
    /\ RefreshSucceeded => sess.refreshToken = sess.before[sess.user].refreshToken

C8_Witness ==
    /\ sess.op = "authenticate"
    /\ sess.path = "refresh"
    /\ sess.message = "Refresh token expired"
    /\ \E p \in Principals :
        /\ resolveEntity(sess.refreshToken).id = p
        /\ sess.refreshToken \in issued
        /\ jwtVerify(sess.refreshToken, store[p].publicKey, now)
        /\ store[p].refreshToken # sess.refreshToken
        /\ PassesRefreshValidation(store, now, store[p].refreshToken)

\* C9: a refresh attempt of authenticate or of /verify is accepted only if the
\* presented token equals the stored one and the stored expiry exists and has
\* not passed; every other attempt is rejected with the cookies cleared, no
\* token issued and the stored documents unchanged.
C9_RefreshOnlyOnExactMatch ==
    RefreshAttempt =>
        LET p == resolveEntity(sess.refreshToken).id
        IN  /\ RefreshSucceeded =>
                /\ p \in Principals
                /\ sess.user = p
                /\ sess.before[p].refreshToken = sess.refreshToken
                /\ sess.before[p].refreshTokenExpires # NoDate
                /\ ~(sess.before[p].refreshTokenExpires < now)
            /\ ~RefreshSucceeded =>
                /\ sess.cookies = "cleared"
                /\ sess.code = IF sess.op = "authenticate" THEN 401 ELSE 200
                /\ sess.message \notin {"next", "authenticated: true"}
                /\ issued = sess.issuedBefore
                /\ store = sess.before

C9_Witness ==
    /\ RefreshAttempt
    /\ ~RefreshSucceeded
    /\ sess.op = "verify"
    /\ sess.refreshToken \in issued
    /\ \E p \in Principals :
        /\ resolveEntity(sess.refreshToken).id = p
        /\ jwtVerify(sess.refreshToken, store[p].publicKey, now)
        /\ store[p].refreshToken # NoToken
        /\ store[p].refreshToken # sess.refreshToken
    /\ sess.cookies = "cleared"
    /\ store = sess.before

\* C10 as stated: after every successful refresh the refresh token stored on
\* the principal differs from the one that was presented.
C10_AsStated ==
    RefreshSucceeded => store[sess.user].refreshToken # sess.refreshToken

-----------------------------------------------------------------------------
(* Task detail, listing, edit, delete and attachments                       *)

\* A task document with the fields the edit and attachment routes touch
FullTask(task, title, description, keys) ==
    [organizationId |-> task.organizationId, clientId |-> task.clientId,
     assignedTo |-> task.assignedTo, status |-> task.status,
     createdBy |-> task.createdBy, history |-> task.history,
     title |-> title, description |-> description, attachments |-> keys]

\* What a response carries besides its status: the tasks whose data it shows
OpsReply(op, user, taskId, body, code, kind, shown) ==
    [op |-> op, user |-> user, taskId |-> taskId, body |-> body, code |-> code,
     kind |-> kind, shown |-> shown, before |-> tasks, reqsBefore |-> requirements]

\* canSeeAll of the list, detail and attachment routes
CanSeeAll(user) == user.role = "OWNER" \/ "TASK_VIEW_ALL" \in user.permissions

CanSeeAny(user, task) == TRUE

\* The visibility check of detail, upload and attachment: TRUE when the
\* request goes on
CanSee(user, task) ==
    CanSeeAll(user) \/ ~(~(user.id \in task.assignedTo) /\ ~(task.createdBy = user.id))

\* router.post("/detail", authenticate, requirePermission("PAGE_TASKS"), ...)
Detail(user, taskId) ==
    LET guard == GateChain(user, <<"PAGE_TASKS">>)
        task == FindTask(tasks, taskId, user.organizationId)
        R(code, kind, shown) == OpsReply("detail", user, taskId, << >>, code, kind, shown)
    IN  /\ resp' = IF guard # 0 THEN R(guard, "Forbidden", {})
                   ELSE IF taskId = Missing THEN R(400, "ValidationError", {})
                   ELSE IF task = NoTask THEN R(404, "NotFound", {})
                   ELSE IF ~CanSee(user, task) THEN R(403, "AccessDenied", {})
                   ELSE R(200, "OK", {taskId})
        /\ UNCHANGED <<tasks, requirements, gate, sync, authVars, roleVars, raceVars>>

\* The $or the list route adds to its filter for an identity that is not
\* allowed to see all
ListFilter(user, task) ==
    CanSeeAll(user) \/ user.id \in task.assignedTo \/ task.createdBy = user.id

\* router.post("/list", authenticate, requirePermission("PAGE_TASKS"), ...)
\* with the body { clientId, status }
List(user, clientId, status) ==
    LET guard == GateChain(user, <<"PAGE_TASKS">>)
        found == {t \in DOMAIN tasks :
                    /\ tasks[t] # NoTask
                    /\ tasks[t].organizationId = user.organizationId
                    /\ clientId # Missing => tasks[t].clientId = clientId
                    /\ (status # Missing /\ status \in Range(VALID_TASK_STATUSES))
                            => tasks[t].status = status
                    /\ ListFilter(user, tasks[t])}
        R(code, kind, shown) ==
            OpsReply("list", user, Missing, <<clientId, status>>, code, kind, shown)
    IN  /\ resp' = IF guard # 0 THEN R(guard, "Forbidden", {}) ELSE R(200, "OK", found)
        /\ UNCHANGED <<tasks, requirements, gate, sync, authVars, roleVars, raceVars>>

\* The assignees POST /update stores: the members of the workspace among the
\* ids sent, and the owner if named
ValidIds(org, assignedTo) ==
    {u \in assignedTo \cap UserIds : UserOrg[u] = org} \cup (assignedTo \cap {org})

EditableAlways(task) == TRUE

\* task.status === "DONE" does not hold: the edit may go on
Editable(task) == task.status # "DONE"

\* router.post("/update", authenticate, requirePermission("PAGE_TASKS"),
\* requirePermission("TASK_EDIT"), ...) with the body
\* { taskId, title, description, assignedTo }
Update(user, taskId, title, description, assignedTo) ==
    LET guard == GateChain(user, <<"PAGE_TASKS", "TASK_EDIT">>)
        task == FindTask(tasks, taskId, user.organizationId)
        edited == [task EXCEPT
                      !.title = IF title = Missing THEN @ ELSE Trim(title),
                      !.description = IF description = Missing THEN @ ELSE Trim(description),
                      !.assignedTo = IF assignedTo = {Missing} THEN @
                                     ELSE ValidIds(user.organizationId, assignedTo)]
        R(code, kind, shown) ==
            OpsReply("update", user, taskId, <<title, description, assignedTo>>,
                     code, kind, shown)
    IN  IF guard # 0 THEN
            /\ resp' = R(guard, "Forbidden", {})
            /\ UNCHANGED <<tasks, requirements, gate, sync, authVars, roleVars, raceVars>>
        ELSE IF taskId = Missing THEN
            /\ resp' = R(400, "ValidationError", {})
            /\ UNCHANGED <<tasks, requirements, gate, sync, authVars, roleVars, raceVars>>
        ELSE IF task = NoTask THEN
            /\ resp' = R(404, "NotFound", {})
            /\ UNCHANGED <<tasks, requirements, gate, sync, authVars, roleVars, raceVars>>
        ELSE IF ~Editable(task) THEN
            /\ resp' = R(400, "TaskDone", {})
            /\ UNCHANGED <<tasks, requirements, gate, sync, authVars, roleVars, raceVars>>
        ELSE IF (title # Missing /\ Trim(title) = "") \/ assignedTo = {"<not an array>"} THEN
            /\ resp' = R(400, "ValidationError", {})
            /\ UNCHANGED <<tasks, requirements, gate, sync, authVars, roleVars, raceVars>>
        ELSE
            /\ tasks' = [tasks EXCEPT ![taskId] = edited]
            /\ resp' = R(200, "OK", {taskId})
            /\ UNCHANGED <<requirements, gate, sync, authVars, roleVars, raceVars>>

\* Requirement.updateMany({ linkedTaskIds }, { $pull: { linkedTaskIds } })
Unlink(reqs, taskId) ==
    [r \in DOMAIN reqs |-> [reqs[r] EXCEPT !.linkedTaskIds = @ \ {taskId}]]

\* router.post("/delete", authenticate, requirePermission("PAGE_TASKS"),
\* requirePermission("TASK_DELETE"), ...)
Delete(user, taskId) ==
    LET guard == GateChain(user, <<"PAGE_TASKS", "TASK_DELETE">>)
        task == FindTask(tasks, taskId, user.organizationId)
        R(code, kind) == OpsReply("delete", user, taskId, << >>, code, kind, {})
    IN  IF guard # 0 THEN
            /\ resp' = R(guard, "Forbidden")
            /\ UNCHANGED <<tasks, requirements, gate, sync, authVars, roleVars, raceVars>>
        ELSE IF taskId = Missing THEN
            /\ resp' = R(400, "ValidationError")
            /\ UNCHANGED <<tasks, requirements, gate, sync, authVars, roleVars, raceVars>>
        ELSE IF task = NoTask THEN
            /\ resp' = R(404, "NotFound")
            /\ UNCHANGED <<tasks, requirements, gate, sync, authVars, roleVars, raceVars>>
        ELSE
            /\ requirements' = Unlink(requirements, taskId)
            /\ tasks' = [tasks EXCEPT ![taskId] = NoTask]
            /\ resp' = R(200, "OK")
            /\ UNCHANGED <<gate, sync, authVars, roleVars, raceVars>>

\* The storage key the upload route stores for a new file
NewKey == "k2"

\* router.post("/upload", authenticate, requirePermission("PAGE_TASKS"),
\* upload.array("files", 10), ...) with `files` files
Upload(user, taskId, files) ==
    LET guard == GateChain(user, <<"PAGE_TASKS">>)
        task == FindTask(tasks, taskId, user.organizationId)
        R(code, kind) == OpsReply("upload", user, taskId, <<files>>, code, kind, {})
    IN  IF guard # 0 THEN
            /\ resp' = R(guard, "Forbidden")
            /\ UNCHANGED <<tasks, requirements, gate, sync, authVars, roleVars, raceVars>>
        ELSE IF taskId = Missing \/ files = {} THEN
            /\ resp' = R(400, "ValidationError")
            /\ UNCHANGED <<tasks, requirements, gate, sync, authVars, roleVars, raceVars>>
        ELSE IF task = NoTask THEN
            /\ resp' = R(404, "NotFound")
            /\ UNCHANGED <<tasks, requirements, gate, sync, authVars, roleVars, raceVars>>
        ELSE IF ~Editable(task) THEN
            /\ resp' = R(400, "TaskDone")
            /\ UNCHANGED <<tasks, requirements, gate, sync, authVars, roleVars, raceVars>>
        ELSE IF ~CanSee(user, task) THEN
            /\ resp' = R(403, "AccessDenied")
            /\ UNCHANGED <<tasks, requirements, gate, sync, authVars, roleVars, raceVars>>
        ELSE
            /\ tasks' = [tasks EXCEPT ![taskId].attachments = @ \cup files]
            /\ resp' = R(200, "OK")
            /\ UNCHANGED <<requirements, gate, sync, authVars, roleVars, raceVars>>

\* router.post("/attachment", authenticate, requirePermission("PAGE_TASKS"), ...)
\* with the body { taskId, key }
Attachment(user, taskId, key) ==
    LET guard == GateChain(user, <<"PAGE_TASKS">>)
        task == FindTask(tasks, taskId, user.organizationId)
        R(code, kind, shown) ==
            OpsReply("attachment", user, taskId, <<key>>, code, kind, shown)
    IN  /\ resp' = IF guard # 0 THEN R(guard, "Forbidden", {})
                   ELSE IF taskId = Missing \/ key = Missing
                        THEN R(400, "ValidationError", {})
                   ELSE IF task = NoTask THEN R(404, "NotFound", {})
                   ELSE IF ~CanSee(user, task) THEN R(403, "AccessDenied", {})
                   ELSE IF key \notin task.attachments
                        THEN R(404, "AttachmentNotFound", {})
                   ELSE R(200, "OK", {taskId})
        /\ UNCHANGED <<tasks, requirements, gate, sync, authVars, roleVars, raceVars>>

\* router.post("/attachment/delete", authenticate,
\* requirePermission("PAGE_TASKS"), requirePermission("TASK_EDIT"), ...)
AttachmentDelete(user, taskId, key) ==
    LET guard == GateChain(user, <<"PAGE_TASKS", "TASK_EDIT">>)
        task == FindTask(tasks, taskId, user.organizationId)
        R(code, kind) ==
            OpsReply("attachment/delete", user, taskId, <<key>>, code, kind, {})
    IN  IF guard # 0 THEN
            /\ resp' = R(guard, "Forbidden")
            /\ UNCHANGED <<tasks, requirements, gate, sync, authVars, roleVars, raceVars>>
        ELSE IF taskId = Missing \/ key = Missing THEN
            /\ resp' = R(400, "ValidationError")
            /\ UNCHANGED <<tasks, requirements, gate, sync, authVars, roleVars, raceVars>>
        ELSE IF task = NoTask THEN
            /\ resp' = R(404, "NotFound")
            /\ UNCHANGED <<tasks, requirements, gate, sync, authVars, roleVars, raceVars>>
        ELSE IF ~Editable(task) THEN
            /\ resp' = R(400, "TaskDone")
            /\ UNCHANGED <<tasks, requirements, gate, sync, authVars, roleVars, raceVars>>
        ELSE IF key \notin task.attachments THEN
            /\ resp' = R(404, "AttachmentNotFound")
            /\ UNCHANGED <<tasks, requirements, gate, sync, authVars, roleVars, raceVars>>
        ELSE
            /\ tasks' = [tasks EXCEPT ![taskId].attachments = @ \ {key}]
            /\ resp' = R(200, "OK")
            /\ UNCHANGED <<requirements, gate, sync, authVars, roleVars, raceVars>>

-----------------------------------------------------------------------------
(* State machine of the task detail, listing, edit, delete and attachment   *)
(* routes, with a second workspace beside orgA                              *)

OpsTaskIds == {"t1", "t2", "t3"}

\* A task of the workspace that its owner moved to the status
OpsTaskAt(org, client, creator, assignees, status) ==
    Walk(NewTask(org, client, creator, assignees), OwnerIdentity(org, {}), PathTo[status])

\* Members with the permission sets that tell the gates and the visibility
\* rule apart
OpsIdentities ==
    {OwnerIdentity(o, {}) : o \in OrgIds}
    \cup {MemberIdentity("u1", ps) :
            ps \in {{}, {"PAGE_TASKS"}, {"TASK_VIEW_ALL"}, {"TASK_EDIT", "TASK_DELETE"},
                    {"PAGE_TASKS", "TASK_VIEW_ALL"}, {"PAGE_TASKS", "TASK_EDIT"},
                    {"PAGE_TASKS", "TASK_DELETE"}}}

\* Task ids a request names
NamedTaskIds == OpsTaskIds \cup {"t404", Missing}

\* Task ids a request that changes a task names: the one task that
\* changes, the task of the other workspace, no task at all
ChangedTaskIds(user) ==
    IF user.organizationId = "orgA" THEN {"t1", "t3", "t404", Missing} ELSE {"t1", "t404"}

Keys == {"k1", "k2", "k3", Missing}

\* Request bodies of POST /update after the task id: title, description, assignedTo
UpdateBodies ==
    {<<" New ", Missing, {Missing}>>, <<Missing, "d", {Missing}>>, <<"  ", "d", {Missing}>>,
     <<Missing, Missing, {"u1", "orgA", "u404"}>>, <<"New", Missing, {"<not an array>"}>>}

\* t1 is a task of orgA in any of several shapes, t2 a task of orgA that
\* member u2 created, t3 a task of orgB; r1 is linked to t1.
InitOps ==
    /\ \E creator \in {"orgA", "u1"}, assignees \in {{}, {"u1"}}, status \in {"TODO", "DONE"} :
            /\ tasks = [t \in OpsTaskIds |->
                  CASE t = "t1" -> FullTask(OpsTaskAt("orgA", "c1", creator, assignees, status), "A", "", {"k1"})
                    [] t = "t2" -> FullTask(OpsTaskAt("orgA", "c2", "u2", {"u2"}, "DOING"), "B", "", {})
                    [] OTHER -> FullTask(OpsTaskAt("orgB", "c9", "orgB", {}, "TODO"), "C", "", {"k3"})]
            /\ requirements = [r \in ReqIds |->
                  [organizationId |-> "orgA", clientId |-> "c1",
                   status |-> IF status = "DONE" THEN "COMPLETED" ELSE "IN_PROGRESS",
                   linkedTaskIds |-> {"t1"}]]
    /\ resp = NoResp
    /\ gate = NoGate
    /\ sync = NoSync
    /\ RaceAtRest
    /\ RolesAtRest
    /\ AuthAtRest

DetailAction ==
    /\ resp = NoResp
    /\ \E user \in OpsIdentities, taskId \in NamedTaskIds : Detail(user, taskId)

ListAction ==
    /\ resp = NoResp
    /\ \E user \in OpsIdentities, clientId \in {Missing, "c1"},
          status \in {Missing, "TODO", "ARCHIVED"} : List(user, clientId, status)

UpdateAction ==
    /\ resp = NoResp
    /\ \E user \in OpsIdentities, body \in UpdateBodies :
        \E taskId \in ChangedTaskIds(user) : Update(user, taskId, body[1], body[2], body[3])

DeleteAction ==
    /\ resp = NoResp
    /\ \E user \in OpsIdentities :
        \E taskId \in ChangedTaskIds(user) : Delete(user, taskId)

UploadAction ==
    /\ resp = NoResp
    /\ \E user \in OpsIdentities, files \in {{}, {NewKey}} :
        \E taskId \in ChangedTaskIds(user) : Upload(user, taskId, files)

AttachmentAction ==
    /\ resp = NoResp
    /\ \E user \in OpsIdentities, taskId \in NamedTaskIds, key \in Keys :
            Attachment(user, taskId, key)

AttachmentDeleteAction ==
    /\ resp = NoResp
    /\ \E user \in OpsIdentities, key \in Keys :
        \E taskId \in ChangedTaskIds(user) : AttachmentDelete(user, taskId, key)

OpsMoveAction ==
    /\ resp = NoResp
    /\ \E user \in OpsIdentities, targetStatus \in {"DOING", Missing} :
        \E taskId \in ChangedTaskIds(user) : Move(user, taskId, targetStatus)

NextOps ==
    \/ DetailAction
    \/ ListAction
    \/ UpdateAction
    \/ DeleteAction
    \/ UploadAction
    \/ AttachmentAction
    \/ AttachmentDeleteAction
    \/ OpsMoveAction
    \/ Deliver

SpecOps == InitOps /\ [][NextOps]_vars

-----------------------------------------------------------------------------
(* Claims about task edit, visibility and workspace isolation               *)

\* The task the edit request names, as the caller's workspace holds it
\* before the request
EditTarget == FindTask(resp.before, resp.taskId, resp.user.organizationId)

\* C15: an edit of a task whose status is DONE is rejected (by a gate, or as
\* a validation error) and changes nothing; an edit that is applied found
\* the task in a status other than DONE.
C15_DoneTaskNotEdited ==
    resp.op = "update" =>
        /\ (EditTarget # NoTask /\ EditTarget.status = "DONE") =>
                /\ resp.code \in {400, 403}
                /\ resp.code = 400 <=> GateChain(resp.user, <<"PAGE_TASKS", "TASK_EDIT">>) = 0
                /\ tasks = resp.before
        /\ tasks # resp.before =>
                /\ resp.code = 200
                /\ EditTarget # NoTask
                /\ EditTarget.status # "DONE"

C15_Witness ==
    /\ resp.op = "update"
    /\ resp.code = 400
    /\ resp.kind = "TaskDone"
    /\ resp.body[1] = " New "
    /\ resp.before[resp.taskId].title = "A"

\* Tasks of the identity's workspace before the request
WorkspaceTasks(user) ==
    {t \in DOMAIN resp.before :
        resp.before[t] # NoTask /\ resp.before[t].organizationId = user.organizationId}

\* The identity is the creator or an assignee of the task
OwnTask(user, t) ==
    resp.before[t].createdBy = user.id \/ user.id \in resp.before[t].assignedTo

\* The task passes the clientId and status filters of a list request
MatchesListBody(t) ==
    /\ resp.body[1] # Missing => resp.before[t].clientId = resp.body[1]
    /\ resp.body[2] \in Range(VALID_TASK_STATUSES) => resp.before[t].status = resp.body[2]

ListRequest == resp.op = "list"

\* A detail request that names a task of the caller's workspace
DetailRequest == resp.op = "detail" /\ resp.taskId \in WorkspaceTasks(resp.user)

\* C16 as stated: an Owner or view-all holder is shown every task of the
\* workspace by an unfiltered listing and by detail; any other identity is
\* shown only tasks it created or is assigned to.
C16_AsStated ==
    /\ (ListRequest /\ resp.body = <<Missing, Missing>>) =>
            IF CanSeeAll(resp.user) THEN resp.shown = WorkspaceTasks(resp.user)
            ELSE resp.shown \subseteq {t \in WorkspaceTasks(resp.user) : OwnTask(resp.user, t)}
    /\ DetailRequest =>
            IF CanSeeAll(resp.user) THEN resp.shown = {resp.taskId}
            ELSE resp.shown \subseteq {t \in WorkspaceTasks(resp.user) : OwnTask(resp.user, t)}

\* C16: an identity that passes the task page gate (Owner, or holder of
\* PAGE_TASKS) is shown, by a listing, the tasks of its workspace that match
\* the request's filters, all of them if it is Owner or holds TASK_VIEW_ALL
\* and otherwise exactly those it created or is assigned to; detail shows a
\* task of the workspace under the same rule and answers 403 otherwise. An
\* identity that does not pass the gate is shown nothing.
C16_Visibility ==
    LET user == resp.user
        passes == user.role = "OWNER" \/ "PAGE_TASKS" \in user.permissions
        visible == {t \in WorkspaceTasks(user) : CanSeeAll(user) \/ OwnTask(user, t)}
    IN  /\ ListRequest =>
                IF passes
                THEN /\ resp.code = 200
                     /\ resp.shown = {t \in visible : MatchesListBody(t)}
                ELSE resp.code = 403 /\ resp.shown = {}
        /\ DetailRequest =>
                IF passes /\ resp.taskId \in visible
                THEN resp.code = 200 /\ resp.shown = {resp.taskId}
                ELSE resp.code = 403 /\ resp.shown = {}
        /\ resp.op \in {"list", "detail", "attachment"} => resp.shown \subseteq visible

\* A member that only holds PAGE_TASKS lists the workspace and is shown the
\* task it is assigned to and not the one it has no part in
C16_Witness ==
    /\ ListRequest
    /\ resp.user.role = "MEMBER"
    /\ resp.user.permissions = {"PAGE_TASKS"}
    /\ resp.body = <<Missing, Missing>>
    /\ resp.shown = {"t1"}
    /\ resp.before["t1"].createdBy # resp.user.id
    /\ "t2" \in WorkspaceTasks(resp.user)

TaskOps == {"detail", "update", "delete", "upload", "attachment", "attachment/delete", "move"}

\* The request names a task that exists in another workspace
NamesForeignTask ==
    /\ resp.taskId \in DOMAIN resp.before
    /\ resp.before[resp.taskId] # NoTask
    /\ resp.before[resp.taskId].organizationId # resp.user.organizationId

\* The request names a task that does not exist
NamesAbsentTask ==
    /\ resp.taskId # Missing
    /\ resp.taskId \in DOMAIN resp.before => resp.before[resp.taskId] = NoTask

\* The permissions a route asks for before its handler runs
RouteGates ==
    [op \in TaskOps |->
        CASE op \in {"update", "attachment/delete"} -> {"PAGE_TASKS", "TASK_EDIT"}
          [] op = "delete" -> {"PAGE_TASKS", "TASK_DELETE"}
          [] OTHER -> {"PAGE_TASKS"}]

\* The request lacks a field the handler asks for before it looks the task up
BodyIncomplete ==
    CASE resp.op = "upload" -> resp.body[1] = {}
      [] resp.op \in {"attachment", "attachment/delete"} -> resp.body[1] = Missing
      [] resp.op = "move" -> resp.target \notin Range(VALID_TASK_STATUSES)
      [] OTHER -> FALSE

\* What a request that names no task of the caller's workspace is answered,
\* from the caller and the rest of the request alone
OutcomeWithoutTask ==
    IF ~(resp.user.role = "OWNER" \/ RouteGates[resp.op] \subseteq resp.user.permissions)
    THEN <<403, "Forbidden">>
    ELSE IF BodyIncomplete THEN <<400, "ValidationError">>
    ELSE <<404, "NotFound">>

\* C19: a task operation that names a task of another workspace is answered
\* as the same request naming a task that does not exist (NotFound once the
\* gates and the body checks are passed); no task is returned and no task or
\* requirement changes.
C19_ForeignTaskIsAbsent ==
    (resp.op \in TaskOps /\ (NamesForeignTask \/ NamesAbsentTask)) =>
        /\ <<resp.code, resp.kind>> = OutcomeWithoutTask
        /\ tasks = resp.before
        /\ sync = NoSync
        /\ IF resp.op = "move" THEN resp.task = NoTask
           ELSE resp.shown = {} /\ requirements = resp.reqsBefore

\* The owner of orgA asks to delete the task of orgB and is told NotFound
C19_Witness ==
    /\ resp.op = "delete"
    /\ NamesForeignTask
    /\ resp.user.role = "OWNER"
    /\ resp.code = 404
    /\ tasks[resp.taskId].status = "TODO"

-----------------------------------------------------------------------------
(* Claims about token signatures                                            *)

\* Principals that have a key pair
Keyed == {p \in Principals : store[p].publicKey # NoKey}

\* The token that established the identity of a session request
EstablishingToken == IF sess.path = "access" THEN sess.accessToken ELSE sess.refreshToken

\* C18: every issued token verifies, when it is issued, against the public
\* key of the principal it was issued for and against no other principal's;
\* a request establishes an identity only with a token signed with that
\* identity's own key.
C18_TokenBoundToPrincipal ==
    /\ \A token \in issued : \A p \in Keyed :
            jwtVerify(token, store[p].publicKey, token.iat) <=> p = token.id
    /\ sess.user # Missing =>
            /\ sess.op = "login" \/ EstablishingToken.key = store[sess.user].privateKey
            /\ sess.op = "login" \/ EstablishingToken.id = sess.user

\* Tokens of both principals are out, and a request that sends the
\* cross-signed token as its access cookie is served as the member whose
\* refresh token it also carries, not as the organization the token names
C18_Witness ==
    /\ \E a \in issued, b \in issued : a.id # b.id
    /\ sess.op = "authenticate"
    /\ sess.accessToken = CrossSigned
    /\ sess.user = "u1"

-----------------------------------------------------------------------------
(* State machine of the role routes and the member update route             *)

\* Owners of both workspaces, and a member with the permission sets that
\* tell the gates apart
RoleIdentities ==
    {OwnerIdentity(o, {}) : o \in OrgIds}
    \cup {MemberIdentity("u1", ps) :
            ps \in {{}, {"ROLE_MANAGE", "USER_INVITE"}, {"PAGE_SETTINGS", "ROLE_MANAGE"},
                    {"PAGE_SETTINGS", "USER_INVITE"}}}

NamedRoleIds == RoleIds \cup {"r404", Missing}

\* Member ids a request names: the one member whose document changes, no
\* member at all
NamedUserIds == {"u1", "u404", Missing}

\* Request bodies of POST /api/roles/update after the role id: name, permissions
RoleUpdateBodies ==
    {<<Missing, {Missing}>>, <<" New ", {Missing}>>, <<"  ", {Missing}>>,
     <<"MEMBER", {Missing}>>, <<Missing, {"p2", "p404"}>>,
     <<" New ", {"<not an array>"}>>}

InitRole ==
    /\ tasks = << >>
    /\ requirements = << >>
    /\ resp = NoResp
    /\ gate = NoGate
    /\ sync = NoSync
    /\ RaceAtRest
    /\ RolesAtRest
    /\ AuthAtRest

RoleUpdateAction ==
    /\ resp = NoResp
    /\ \E user \in RoleIdentities, roleId \in NamedRoleIds, body \in RoleUpdateBodies :
            RoleUpdate(user, roleId, body[1], body[2])
    /\ UNCHANGED <<tasks, requirements, gate, sync, authVars, raceVars>>

RoleDeleteAction ==
    /\ resp = NoResp
    /\ \E user \in RoleIdentities, roleId \in NamedRoleIds : RoleDelete(user, roleId)
    /\ UNCHANGED <<tasks, requirements, gate, sync, authVars, raceVars>>

RoleAssignAction ==
    /\ resp = NoResp
    /\ \E user \in RoleIdentities, userId \in NamedUserIds, roleId \in NamedRoleIds :
            RoleAssign(user, userId, roleId)
    /\ UNCHANGED <<tasks, requirements, gate, sync, authVars, raceVars>>

UserUpdateAction ==
    /\ resp = NoResp
    /\ \E user \in RoleIdentities, userId \in NamedUserIds,
          name \in {Missing, " New ", "  "}, role \in {Missing, "MEMBER", "OWNER"},
          roleId \in NamedRoleIds \cup {NoRoleId} :
            UserUpdate(user, userId, name, role, roleId)
    /\ UNCHANGED <<tasks, requirements, gate, sync, authVars, raceVars>>

NextRole ==
    \/ RoleUpdateAction
    \/ RoleDeleteAction
    \/ RoleAssignAction
    \/ UserUpdateAction
    \/ Deliver

SpecRole == InitRole /\ [][NextRole]_vars

-----------------------------------------------------------------------------
(* Claims about the OWNER system role                                       *)

RoleOps == {"role/update", "role/delete", "role/assign", "user/update"}

\* The request names the OWNER system role of the caller's workspace
NamesOwnerRole ==
    LET role == FindRole(resp.before, resp.roleId, resp.user.organizationId)
    IN  role # NoRole /\ role.isSystem /\ role.name = "OWNER"

\* The request names a member of the caller's workspace
NamesMember ==
    /\ resp.userId \in DOMAIN resp.membersBefore
    /\ resp.membersBefore[resp.userId].organizationId = resp.user.organizationId

\* An attempt to rename the OWNER role, change its permissions, delete it,
\* or assign it to a member through either route
OwnerRoleAttempt ==
    /\ resp.op \in RoleOps
    /\ NamesOwnerRole
    /\ resp.op = "role/update" => resp.body # <<Missing, {Missing}>>
    /\ resp.op \in {"role/assign", "user/update"} => NamesMember

\* A member update whose name is blank or whose legacy role field is not
\* MEMBER, sent by a caller that passes the gates
MalformedMemberUpdate ==
    /\ resp.op = "user/update"
    /\ resp.user.role = "OWNER" \/ {"PAGE_SETTINGS", "USER_INVITE"} \subseteq resp.user.permissions
    /\ resp.body[1] = "  " \/ resp.body[2] \notin {Missing, "MEMBER"}

\* C20 as stated: every such attempt is rejected as Forbidden and changes
\* neither the roles nor the members.
C20_AsStated ==
    OwnerRoleAttempt =>
        /\ resp.code = 403
        /\ roles = resp.before
        /\ members = resp.membersBefore

\* C20: the OWNER system role keeps its name, permissions and flag, and no
\* member ever has it; every such attempt is rejected and changes neither
\* the roles nor the members, as Forbidden unless it is a member update that
\* is malformed as well, which is rejected as a validation error.
C20_OwnerRoleProtected ==
    /\ roles["rOwner"] = OwnerRole("orgA")
    /\ roles["rOwnerB"] = OwnerRole("orgB")
    /\ \A u \in DOMAIN members :
            members[u].roleId \notin {"rOwner", "rOwnerB"} /\ members[u].role = "MEMBER"
    /\ OwnerRoleAttempt =>
            /\ roles = resp.before
            /\ members = resp.membersBefore
            /\ <<resp.code, resp.kind>> =
                    IF MalformedMemberUpdate THEN <<400, "ValidationError">>
                    ELSE <<403, "Forbidden">>

\* After the custom role has been deleted and a member moved, the owner asks
\* to assign the OWNER role to a member and is refused
C20_Witness ==
    /\ resp.op = "role/assign"
    /\ OwnerRoleAttempt
    /\ resp.user.role = "OWNER"
    /\ resp.code = 403
    /\ roles["rCustom"] = NoRole
    /\ members["u2"].roleId = "rMember"

-----------------------------------------------------------------------------
(* Role delete and role assignment, one database call at a time             *)

RaceIds == {"q1", "q2", "q3"}

\* What a request in flight over roles, sessions or tasks leaves alone is
\* named in its action; the rest of the collections are these
restVars == <<tasks, requirements, resp, gate, sync, authVars>>

\* The locals of a role request that has not read anything yet
RoleRequest(op, user, roleId, userId) ==
    [op |-> op, pc |-> "findRole", user |-> user, roleId |-> roleId, userId |-> userId, role |-> NoRole, memberRole |-> NoRoleId, code |-> 0]

\* The request has been answered
Answered(q, code) == [flight[q] EXCEPT !.pc = "done", !.code = code]

\* Requests at a position of a handler
At(op, pc) == {q \in DOMAIN flight : flight[q].op = op /\ flight[q].pc = pc}

\* A request arrives and passes authenticate and the two gates
\* (routes/role.js: "/delete" and "/assign")
RoleRequestArrives ==
    \E q \in RaceIds \ DOMAIN flight, op \in {"delete", "assign"}, roleId \in {"rCustom", "rMember"}, userId \in UserIds :
        /\ flight' = [x \in DOMAIN flight \cup {q} |->
                        IF x = q
                        THEN RoleRequest(op, OwnerIdentity("orgA", {}), roleId, IF op = "assign" THEN userId ELSE Missing)
                        ELSE flight[x]]
        /\ UNCHANGED <<roles, members, cache>>
        /\ UNCHANGED restVars

\* "/delete": const role = await Role.findOne({ _id: roleId, organizationId })
\* and the two checks on it
DeleteFindRole ==
    \E q \in At("delete", "findRole") :
        LET role == FindRole(roles, flight[q].roleId, flight[q].user.organizationId)
        IN  /\ flight' = [flight EXCEPT ![q] =
                            IF role = NoRole THEN Answered(q, 404)
                            ELSE IF role.isSystem THEN Answered(q, 403)
                            ELSE [@ EXCEPT !.pc = "findMemberRole", !.role = role]]
            /\ UNCHANGED <<roles, members, cache>>
            /\ UNCHANGED restVars

\* "/delete": const memberRole = await Role.findOne({ organizationId,
\* name: "MEMBER", isSystem: true })
DeleteFindMemberRole ==
    \E q \in At("delete", "findMemberRole") :
        LET found == {r \in DOMAIN roles :
                        /\ roles[r] # NoRole
                        /\ roles[r].organizationId = flight[q].user.organizationId
                        /\ roles[r].name = "MEMBER"
                        /\ roles[r].isSystem}
        IN  /\ flight' = [flight EXCEPT ![q].pc = "updateMany",
                                        ![q].memberRole = IF found = {} THEN NoRoleId
                                                          ELSE CHOOSE r \in found : TRUE]
            /\ UNCHANGED <<roles, members, cache>>
            /\ UNCHANGED restVars

\* "/delete": await User.updateMany({ organizationId, roleId: role._id },
\* { $set: { roleId: memberRole._id } }), skipped without a MEMBER role
DeleteUpdateMany ==
    \E q \in At("delete", "updateMany") :
        /\ members' = IF flight[q].memberRole = NoRoleId THEN members
                      ELSE [u \in DOMAIN members |->
                              IF /\ members[u].organizationId = flight[q].user.organizationId
                                 /\ members[u].roleId = flight[q].roleId
                              THEN [members[u] EXCEPT !.roleId = flight[q].memberRole]
                              ELSE members[u]]
        /\ flight' = [flight EXCEPT ![q].pc = "deleteOne"]
        /\ UNCHANGED <<roles, cache>>
        /\ UNCHANGED restVars

\* "/delete": await Role.deleteOne({ _id: role._id }), then the cache
\* invalidation and res.json
DeleteDeleteOne ==
    \E q \in At("delete", "deleteOne") :
        /\ roles' = [roles EXCEPT ![flight[q].roleId] = NoRole]
        /\ flight' = [flight EXCEPT ![q] = Answered(q, 200)]
        /\ UNCHANGED <<members, cache>>
        /\ UNCHANGED restVars

\* "/assign": const role = await Role.findOne({ _id: roleId, organizationId })
\* and the two checks on it
AssignFindRole ==
    \E q \in At("assign", "findRole") :
        LET role == FindRole(roles, flight[q].roleId, flight[q].user.organizationId)
        IN  /\ flight' = [flight EXCEPT ![q] =
                            IF role = NoRole THEN Answered(q, 404)
                            ELSE IF IsOwnerRole(role) THEN Answered(q, 403)
                            ELSE [@ EXCEPT !.pc = "findUser", !.role = role]]
            /\ UNCHANGED <<roles, members, cache>>
            /\ UNCHANGED restVars

\* "/assign": const user = await User.findOne({ _id: userId, organizationId })
AssignFindUser ==
    \E q \in At("assign", "findUser") :
        /\ flight' = [flight EXCEPT ![q] =
                        IF FindsMember(members, flight[q].userId, flight[q].user.organizationId)
                        THEN [@ EXCEPT !.pc = "save"]
                        ELSE Answered(q, 404)]
        /\ UNCHANGED <<roles, members, cache>>
        /\ UNCHANGED restVars

\* "/assign": user.roleId = role._id; await user.save(), which sets the one
\* modified path, then the cache invalidation and res.json
AssignSave ==
    \E q \in At("assign", "save") :
        /\ members' = [members EXCEPT ![flight[q].userId].roleId = flight[q].roleId]
        /\ flight' = [flight EXCEPT ![q] = Answered(q, 200)]
        /\ UNCHANGED <<roles, cache>>
        /\ UNCHANGED restVars

InitRoleRace ==
    /\ tasks = << >>
    /\ requirements = << >>
    /\ resp = NoResp
    /\ gate = NoGate
    /\ sync = NoSync
    /\ RolesAtRest
    /\ RaceAtRest
    /\ AuthAtRest

NextRoleRace ==
    \/ RoleRequestArrives
    \/ DeleteFindRole
    \/ DeleteFindMemberRole
    \/ DeleteUpdateMany
    \/ DeleteDeleteOne
    \/ AssignFindRole
    \/ AssignFindUser
    \/ AssignSave

SpecRoleRace == InitRoleRace /\ [][NextRoleRace]_vars

\* Every request that has arrived has been answered
Quiet == \A q \in DOMAIN flight : flight[q].pc = "done"

\* C21 as stated: once a delete of a non-system role has reported success
\* and every concurrent assignment has been answered, no member references
\* the deleted role, and the members that were moved hold the system MEMBER
\* role.
C21_AsStated ==
    \A q \in DOMAIN flight :
        (flight[q].op = "delete" /\ flight[q].pc = "done" /\ flight[q].code = 200 /\ Quiet) =>
            \A u \in DOMAIN members : members[u].roleId # flight[q].roleId

-----------------------------------------------------------------------------
(* The permission cache: invalidation by the role and member routes         *)

\* What cacheGet returns for a key that is not there (null); a set, as the
\* cached values are
NoEntry == {"<no entry>"}

\* cacheGet("perms:" + id): null when the client is not ready or the key is
\* not there
cacheGet(c, id) == IF c.ready /\ id \in DOMAIN c.entries THEN c.entries[id] ELSE NoEntry

\* cacheSet("perms:" + id, value, 300): silent when the client is not ready
cacheSet(c, id, value) ==
    IF ~c.ready THEN c
    ELSE [c EXCEPT !.entries = [k \in DOMAIN c.entries \cup {id} |-> IF k = id THEN value ELSE c.entries[k]]]

\* cacheDelPattern(pattern), the pattern matching the keys of `ids`: silent
\* when the client is not ready
cacheDelPattern(c, ids) ==
    IF ~c.ready THEN c
    ELSE [c EXCEPT !.entries = [k \in DOMAIN c.entries \ ids |-> c.entries[k]]]

\* The permission set of a member as the documents give it: its role's
\* permissions, or those of the system MEMBER role without a role
FreshPermissions(rs, ms, id) ==
    LET roleId == ms[id].roleId
        fallback == {r \in DOMAIN rs : rs[r] # NoRole /\ rs[r].organizationId = ms[id].organizationId /\ rs[r].name = "MEMBER" /\ rs[r].isSystem}
    IN  IF roleId \in DOMAIN rs /\ rs[roleId] # NoRole THEN rs[roleId].permissions
        ELSE IF fallback = {} THEN {}
        ELSE rs[CHOOSE r \in fallback : TRUE].permissions

\* resolvePermissions(entity, "user"): read through the cache
ResolvePermissions(id) ==
    LET cached == cacheGet(cache, id)
        fresh == FreshPermissions(roles, members, id)
        R(perms, from) == RoleReply("resolve", NoUser, Missing, id, <<perms, from>>, 200, "OK")
    IN  IF cached # NoEntry
        THEN resp' = R(cached, "cache") /\ UNCHANGED cache
        ELSE resp' = R(fresh, "documents") /\ cache' = cacheSet(cache, id, fresh)

\* The keys a role or member route passes to cacheDelPattern once it has
\* saved: "perms:*" after a role update or delete, the member's key after an
\* assignment or a member update that carries a roleId
InvalidatedKeys(reply) ==
    IF reply.code # 200 THEN {}
    ELSE IF reply.op \in {"role/update", "role/delete"} THEN UserIds
    ELSE IF reply.op = "role/assign" THEN {reply.userId}
    ELSE IF reply.op = "user/update" /\ reply.roleId # Missing THEN {reply.userId}
    ELSE {}

CacheOwner == OwnerIdentity("orgA", {})

InitCache ==
    /\ tasks = << >>
    /\ requirements = << >>
    /\ resp = NoResp
    /\ gate = NoGate
    /\ sync = NoSync
    /\ RolesAtRest
    /\ RaceAtRest
    /\ AuthAtRest

ResolveAction ==
    /\ resp = NoResp
    /\ \E id \in UserIds : ResolvePermissions(id)
    /\ UNCHANGED <<tasks, requirements, gate, sync, authVars, roleVars, flight>>

CachedRoleUpdate ==
    /\ resp = NoResp
    /\ \E roleId \in {"rCustom", "rMember"}, permissions \in {{"p2"}, {"p1", "p2"}} :
            RoleUpdate(CacheOwner, roleId, Missing, permissions)
    /\ cache' = cacheDelPattern(cache, InvalidatedKeys(resp'))
    /\ UNCHANGED <<tasks, requirements, gate, sync, authVars, flight>>

CachedRoleDelete ==
    /\ resp = NoResp
    /\ RoleDelete(CacheOwner, "rCustom")
    /\ cache' = cacheDelPattern(cache, InvalidatedKeys(resp'))
    /\ UNCHANGED <<tasks, requirements, gate, sync, authVars, flight>>

CachedRoleAssign ==
    /\ resp = NoResp
    /\ \E userId \in UserIds, roleId \in {"rCustom", "rMember"} :
            RoleAssign(CacheOwner, userId, roleId)
    /\ cache' = cacheDelPattern(cache, InvalidatedKeys(resp'))
    /\ UNCHANGED <<tasks, requirements, gate, sync, authVars, flight>>

CachedUserUpdate ==
    /\ resp = NoResp
    /\ \E userId \in UserIds, name \in {Missing, " New "}, roleId \in {Missing, NoRoleId, "rCustom"} :
            UserUpdate(CacheOwner, userId, name, Missing, roleId)
    /\ cache' = cacheDelPattern(cache, InvalidatedKeys(resp'))
    /\ UNCHANGED <<tasks, requirements, gate, sync, authVars, flight>>

\* The connection to Redis drops or comes back; the server keeps its keys
RedisStatus ==
    /\ resp = NoResp
    /\ cache' = [cache EXCEPT !.ready = ~@]
    /\ UNCHANGED <<tasks, requirements, resp, gate, sync, authVars, roleVars, flight>>

\* An entry reaches its time to live of 300 seconds
CacheExpire ==
    /\ resp = NoResp
    /\ \E id \in DOMAIN cache.entries :
            cache' = [cache EXCEPT !.entries = [k \in DOMAIN cache.entries \ {id} |-> cache.entries[k]]]
    /\ UNCHANGED <<tasks, requirements, resp, gate, sync, authVars, roleVars, flight>>

\* res.json(...) has been sent
CacheDeliver ==
    /\ resp # NoResp
    /\ resp' = NoResp
    /\ UNCHANGED <<tasks, requirements, gate, sync, authVars, roleVars, raceVars>>

NextCache ==
    \/ ResolveAction
    \/ CachedRoleUpdate
    \/ CachedRoleDelete
    \/ CachedRoleAssign
    \/ CachedUserUpdate
    \/ RedisStatus
    \/ CacheExpire
    \/ CacheDeliver

SpecCache == InitCache /\ [][NextCache]_vars

\* C22 as stated: a mutation that reports success has deleted the cache
\* entry of every member it affects, and a resolution never returns from
\* the cache a set other than the one the documents give.
C22_AsStated ==
    /\ resp.op \in RoleOps => InvalidatedKeys(resp) \cap DOMAIN cache.entries = {}
    /\ (resp.op = "resolve" /\ resp.body[2] = "cache") =>
            resp.body[1] = FreshPermissions(roles, members, resp.userId)

-----------------------------------------------------------------------------
(* Logout and the refresh token it carried                                  *)

\* POST /logout, with the refresh token it carried noted once it has
\* completed
LogoutNoted ==
    /\ sess = NoSess
    /\ \E refreshToken \in Presentable :
            /\ Logout(refreshToken)
            /\ revoked' = IF refreshToken = NoToken THEN revoked ELSE revoked \cup {refreshToken}
    /\ UNCHANGED <<tasks, requirements, resp, gate, sync, roleVars, raceVars>>

NextLogout ==
    \/ LoginAction
    \/ LogoutNoted
    \/ Tick
    \/ SessionDeliver

SpecLogout == InitAuth /\ [][NextLogout]_vars

StoredOnSomePrincipal(refreshToken) ==
    \E p \in DOMAIN store : store[p].refreshToken = refreshToken

\* C23 as stated: once a logout that carried refresh token R has completed,
\* R is stored on no principal and does not pass refresh validation, at any
\* later moment.
C23_AsStated ==
    \A R \in revoked : ~StoredOnSomePrincipal(R) /\ ~PassesRefreshValidation(store, now, R)

-----------------------------------------------------------------------------
(* The client decision                                                      *)

\* The task the decision names exists and belongs to the responding client
RespondsToOwnTask ==
    /\ resp.user.userType = "client"
    /\ resp.taskId \in DOMAIN resp.before
    /\ resp.before[resp.taskId] # NoTask
    /\ resp.before[resp.taskId].organizationId = resp.user.organizationId
    /\ resp.before[resp.taskId].clientId = resp.user.clientId

-----------------------------------------------------------------------------
(* The requirement status route next to the task routes                     *)

\* Requirement.findOne({ _id: requirementId, organizationId })
FindRequirement(reqs, requirementId, org) ==
    requirementId \in DOMAIN reqs /\ reqs[requirementId].organizationId = org

\* router.post("/update-status", authenticate, requirePermission("PAGE_CLIENTS"), ...)
UpdateStatus(user, requirementId, status) ==
    LET guard == GateChain(user, <<"PAGE_CLIENTS">>)
        R(code, kind) == OpsReply("requirement/update-status", user, requirementId, status, code, kind, {})
    IN  IF guard # 0 THEN
            /\ resp' = R(guard, "Forbidden")
            /\ UNCHANGED requirements
        ELSE IF requirementId = Missing \/ status \notin Range(VALID_REQ_STATUSES) THEN
            /\ resp' = R(400, "ValidationError")
            /\ UNCHANGED requirements
        ELSE IF ~FindRequirement(requirements, requirementId, user.organizationId) THEN
            /\ resp' = R(404, "NotFound")
            /\ UNCHANGED requirements
        ELSE
            /\ requirements' = [requirements EXCEPT ![requirementId].status = status]
            /\ resp' = R(200, "OK")

\* One task of client c1 and the requirement it was created for: the link
\* step of POST /api/tasks has moved the requirement from OPEN to IN_PROGRESS
InitReq ==
    /\ tasks = [t \in TaskIds |-> NewTask("orgA", "c1", "orgA", {"u1"})]
    /\ requirements = [r \in ReqIds |-> [organizationId |-> "orgA", clientId |-> "c1", status |-> "IN_PROGRESS", linkedTaskIds |-> TaskIds]]
    /\ resp = NoResp
    /\ gate = NoGate
    /\ sync = NoSync
    /\ RaceAtRest
    /\ RolesAtRest
    /\ AuthAtRest

UpdateStatusAction ==
    /\ resp = NoResp
    /\ \E user \in {NoUser, OwnerIdentity("orgA", {}), OwnerIdentity("orgB", {}), MemberIdentity("u1", {}), MemberIdentity("u1", {"PAGE_CLIENTS"})},
          requirementId \in ReqIds \cup {"r404", Missing},
          status \in Range(VALID_REQ_STATUSES) \cup {"ARCHIVED", Missing} :
            UpdateStatus(user, requirementId, status)
    /\ UNCHANGED <<tasks, gate, sync, authVars, roleVars, raceVars>>

NextReq == UpdateStatusAction \/ MoveAction \/ RespondAction \/ Deliver

SpecReq == InitReq /\ [][NextReq]_vars

\* The step ran syncRequirementStatus
Derives == sync' # NoSync /\ sync'.op = "sync"

\* C25 as stated: no step sets a requirement's status to COMPLETED or
\* IN_PROGRESS other than the derivation from the statuses of its linked
\* tasks.
C25_AsStated ==
    [][\A r \in DOMAIN requirements :
            (requirements'[r].status # requirements[r].status /\ requirements'[r].status \in {"COMPLETED", "IN_PROGRESS"})
                => (Derives /\ requirements'[r].status = SyncOne(requirements[r], tasks'))]_vars

\* C26 as stated: a requirement that is CLOSED stays CLOSED in every step,
\* and a step that makes a requirement CLOSED is a manual status update,
\* never a derivation.
C26_AsStated ==
    [][\A r \in DOMAIN requirements :
            /\ requirements[r].status = "CLOSED" => requirements'[r].status = "CLOSED"
            /\ (requirements[r].status # "CLOSED" /\ requirements'[r].status = "CLOSED")
                    => (resp'.op = "requirement/update-status" /\ ~Derives)]_vars

\* The second half alone: CLOSED is entered by a manual status update
\* only
ClosedEnteredOnlyManually ==
    [][\A r \in DOMAIN requirements :
            (requirements[r].status # "CLOSED" /\ requirements'[r].status = "CLOSED")
                    => (resp'.op = "requirement/update-status" /\ ~Derives)]_vars

-----------------------------------------------------------------------------
(* POST /move, one database call at a time                                  *)

moveRest == <<requirements, resp, gate, sync, authVars, roleVars, cache>>

\* A /move request past authenticate, with the document findOne will return
MoveRequest(user, taskId, targetStatus) ==
    [op |-> "move", pc |-> "findOne", user |-> user, taskId |-> taskId, targetStatus |-> targetStatus, task |-> NoTask, code |-> 0]

\* task.save() that writes the whole document the handler holds
SaveTaskWholeDocument(persisted, local, record, targetStatus) ==
    [local EXCEPT !.status = targetStatus, !.history = Append(@, record)]

\* task.save() of a document whose status was assigned and whose history was
\* pushed to: $set of status and $push of the record, on the document as it
\* is in the collection
SaveTask(persisted, local, record, targetStatus) ==
    [persisted EXCEPT !.status = targetStatus, !.history = Append(@, record)]

\* The gate and the body checks, which read no document
MoveArrives ==
    /\ \E q \in RaceIds \ DOMAIN flight,
          user \in {OwnerIdentity("orgA", {}), MemberIdentity("u1", {"PAGE_TASKS"}), MemberIdentity("u1", {})},
          taskId \in TaskIds \cup {"t404"},
          targetStatus \in {"DOING", "SENT_TO_CLIENT", "REVISION", "DONE", Missing} :
            LET guard == RequirePermission(user, {"PAGE_TASKS"})
                request == MoveRequest(user, taskId, targetStatus)
                code == IF guard # 0 THEN guard
                        ELSE IF targetStatus \notin Range(VALID_TASK_STATUSES) THEN 400
                        ELSE 0
            IN  flight' = [p \in DOMAIN flight \cup {q} |->
                              IF p # q THEN flight[p]
                              ELSE IF code = 0 THEN request
                              ELSE [request EXCEPT !.pc = "done", !.code = code]]
    /\ UNCHANGED tasks
    /\ UNCHANGED moveRest

\* await Task.findOne(...), then the transition and permission checks on
\* the document read
MoveFindOne ==
    /\ \E q \in At("move", "findOne") :
            LET r == flight[q]
                task == FindTask(tasks, r.taskId, r.user.organizationId)
                transition == IF task = NoTask THEN NotFound
                              ELSE FindTransition(TRANSITIONS[task.status], r.targetStatus)
            IN  flight' = [flight EXCEPT ![q] =
                              IF task = NoTask THEN Answered(q, 404)
                              ELSE IF transition = NotFound THEN Answered(q, 400)
                              ELSE IF ~MayMove(r.user, task, transition) THEN Answered(q, 403)
                              ELSE [r EXCEPT !.pc = "save", !.task = task]]
    /\ UNCHANGED tasks
    /\ UNCHANGED moveRest

\* await task.save(), after resolveActorName and history.push
MoveSave ==
    /\ \E q \in At("move", "save") :
            LET r == flight[q]
                record == MoveRecord(r.user, r.task.status, r.targetStatus)
            IN  /\ Len(tasks[r.taskId].history) < MaxHistory
                /\ tasks' = [tasks EXCEPT ![r.taskId] = SaveTask(@, r.task, record, r.targetStatus)]
                /\ flight' = [flight EXCEPT ![q].pc = "sync"]
    /\ UNCHANGED moveRest

\* await syncRequirementStatus(...), which finds no requirement here, and
\* the response
MoveSync ==
    /\ \E q \in At("move", "sync") : flight' = [flight EXCEPT ![q] = Answered(q, 200)]
    /\ UNCHANGED tasks
    /\ UNCHANGED moveRest

\* A task nobody has moved, or one that was moved to READY_FOR_REVIEW
InitMoveRace ==
    /\ \E moved \in BOOLEAN :
            tasks = [t \in TaskIds |->
                        IF moved
                        THEN ApplyMove(ApplyMove(NewTask("orgA", "c1", "orgA", {}), OwnerIdentity("orgA", {}), "DOING"), OwnerIdentity("orgA", {}), "READY_FOR_REVIEW")
                        ELSE NewTask("orgA", "c1", "orgA", {})]
    /\ requirements = << >>
    /\ resp = NoResp
    /\ gate = NoGate
    /\ sync = NoSync
    /\ RaceAtRest
    /\ RolesAtRest
    /\ AuthAtRest

NextMoveRace ==
    \/ MoveArrives
    \/ MoveFindOne
    \/ MoveSave
    \/ MoveSync

SpecMoveRace == InitMoveRace /\ [][NextMoveRace]_vars

\* C27 as stated: whenever a transition is written, the `from` of the
\* record it adds is the status the task has in the collection at that
\* moment, so that of two transitions read from the same origin at most one
\* is applied from it.
C27_AsStated ==
    [][\A t \in DOMAIN tasks :
            tasks'[t] # tasks[t] =>
                /\ Len(tasks'[t].history) = Len(tasks[t].history) + 1
                /\ tasks'[t].history[Len(tasks'[t].history)].from = tasks[t].status]_vars

\* The requests whose save has returned
Saved == {q \in DOMAIN flight : flight[q].op = "move" /\ flight[q].pc \in {"sync", "done"} /\ flight[q].task # NoTask}

SavedRecord(q) == MoveRecord(flight[q].user, flight[q].task.status, flight[q].targetStatus)

\* Every saved request has a history record of its own
RecordsKept ==
    \A t \in DOMAIN tasks :
        LET saved == {q \in Saved : flight[q].taskId = t}
        IN  \E at \in [saved -> 1..Len(tasks[t].history)] :
                /\ \A q1, q2 \in saved : at[q1] = at[q2] => q1 = q2
                /\ \A q \in saved : tasks[t].history[at[q]] = SavedRecord(q)

\* No step removes or alters a record
RecordsStay ==
    \A t \in DOMAIN tasks :
        /\ Len(tasks'[t].history) >= Len(tasks[t].history)
        /\ \A i \in 1..Len(tasks[t].history) : tasks'[t].history[i] = tasks[t].history[i]

\* C28: under every interleaving of moves of the same task, each request
\* whose save has returned has its own record in the persisted history, and
\* no step removes or alters a record that is there.
C28_HistoryAppendOnly == []RecordsKept /\ [][RecordsStay]_vars

C28_Witness ==
    \E q1, q2 \in Saved :
        /\ q1 # q2
        /\ flight[q1].taskId = flight[q2].taskId
        /\ flight[q1].task.status = flight[q2].task.status
        /\ flight[q1].targetStatus # flight[q2].targetStatus
        /\ flight[q1].code = 200 /\ flight[q2].code = 200

-----------------------------------------------------------------------------
(* The refresh path of authenticate, one database call at a time            *)

refreshRest == <<tasks, requirements, resp, gate, sync, sess, revoked, roleVars, cache>>

NoTokens == [accessToken |-> NoToken, refreshToken |-> NoToken, refreshExpires |-> NoDate]

\* What the response does to the two cookies: nothing, clearAuthCookies or
\* setAuthCookies
NoCookies == [headers |-> "none", accessToken |-> NoToken, refreshToken |-> NoToken]

ClearedCookies == [headers |-> "cleared", accessToken |-> NoToken, refreshToken |-> NoToken]

setAuthCookies(accessToken, refreshToken) ==
    [headers |-> "set", accessToken |-> accessToken, refreshToken |-> refreshToken]

\* A request without a usable access cookie that reached step 2
RefreshRequest(refreshToken) ==
    [op |-> "refresh", pc |-> "resolveEntity", refreshToken |-> refreshToken, who |-> NoEntity, tokens |-> NoTokens, code |-> 0, cookies |-> NoCookies]

\* clearAuthCookies(res) and the 401 answer
Rejected(q) == [flight[q] EXCEPT !.pc = "done", !.code = 401, !.cookies = ClearedCookies]

\* The assignment of one field only
SaveSessionTokenOnly(entity, tokens) == [entity EXCEPT !.refreshToken = tokens.refreshToken]

\* entity.refreshToken = tokens.refreshToken; entity.refreshTokenExpires =
\* tokens.refreshExpires; the document entity.save() writes
SaveSession(entity, tokens) ==
    [entity EXCEPT !.refreshToken = tokens.refreshToken, !.refreshTokenExpires = tokens.refreshExpires]

RefreshArrives ==
    /\ \E q \in RaceIds \ DOMAIN flight, refreshToken \in issued \cup {NoToken} :
            flight' = [p \in DOMAIN flight \cup {q} |->
                          IF p # q THEN flight[p]
                          ELSE IF refreshToken = NoToken
                               THEN [RefreshRequest(refreshToken) EXCEPT !.pc = "done", !.code = 401, !.cookies = ClearedCookies]
                               ELSE RefreshRequest(refreshToken)]
    /\ UNCHANGED <<store, now, ticks, issued, logins>>
    /\ UNCHANGED refreshRest

\* await resolveEntity(decoded), then jwt.verify, the stored-session check
\* and issueTokens on the document read
RefreshResolve ==
    /\ \E q \in At("refresh", "resolveEntity") :
            LET r == flight[q]
                who == resolveEntity(r.refreshToken)
                entity == store[who.id]
                tokens == issueTokens(entity.privateKey, buildUserPayload(who.id, who.type), entity.rememberMe, now)
            IN  IF \/ RefreshRefusal(store, now, r.refreshToken) # ""
                   \/ ~RefreshAccepted(entity, r.refreshToken, now)
                THEN /\ flight' = [flight EXCEPT ![q] = Rejected(q)]
                     /\ UNCHANGED issued
                ELSE /\ Cardinality(issued \cup {tokens.accessToken, tokens.refreshToken}) <= MaxTokens
                     /\ issued' = issued \cup {tokens.accessToken, tokens.refreshToken}
                     /\ flight' = [flight EXCEPT ![q] = [r EXCEPT !.pc = "save", !.who = who, !.tokens = tokens]]
    /\ UNCHANGED <<store, now, ticks, logins>>
    /\ UNCHANGED refreshRest

\* await entity.save() of the two assigned fields, then the cookies and next()
RefreshSave ==
    /\ \E q \in At("refresh", "save") :
            LET r == flight[q]
            IN  /\ store' = [store EXCEPT ![r.who.id] = SaveSession(@, r.tokens)]
                /\ flight' = [flight EXCEPT ![q] = [r EXCEPT !.pc = "done", !.code = 200, !.cookies = setAuthCookies(r.tokens.accessToken, r.tokens.refreshToken)]]
    /\ UNCHANGED <<now, ticks, issued, logins>>
    /\ UNCHANGED refreshRest

\* entity.save() rejects: the catch block clears the cookies and answers 401
RefreshSaveFails ==
    /\ \E q \in At("refresh", "save") : flight' = [flight EXCEPT ![q] = Rejected(q)]
    /\ UNCHANGED <<store, now, ticks, issued, logins>>
    /\ UNCHANGED refreshRest

\* The clock advances while requests are being handled
RefreshTick ==
    /\ ticks < MaxTicks
    /\ \E d \in TickSteps : now' = now + d
    /\ ticks' = ticks + 1
    /\ UNCHANGED <<store, issued, logins, flight>>
    /\ UNCHANGED refreshRest

\* The owner has logged in at second 0; the member has not
InitRefreshRace ==
    /\ tasks = << >>
    /\ requirements = << >>
    /\ resp = NoResp
    /\ gate = NoGate
    /\ sync = NoSync
    /\ RaceAtRest
    /\ RolesAtRest
    /\ \E rememberMe \in BOOLEAN :
            LET done == loginEntity(FreshEntity(generateKeys("orgA")), "orgA", "organization", rememberMe, 0)
            IN  /\ store = [p \in Principals |-> IF p = "orgA" THEN done.entity ELSE FreshEntity(generateKeys(p))]
                /\ issued = {done.tokens.accessToken, done.tokens.refreshToken}
                /\ logins = [p \in Principals |-> IF p = "orgA" THEN NoteLogin(<< >>, rememberMe, done.tokens.refreshToken) ELSE << >>]
    /\ now = 0
    /\ ticks = 0
    /\ sess = NoSess
    /\ revoked = {}

NextRefreshRace ==
    \/ RefreshArrives
    \/ RefreshResolve
    \/ RefreshSave
    \/ RefreshSaveFails
    \/ RefreshTick

SpecRefreshRace == InitRefreshRace /\ [][NextRefreshRace]_vars

\* Two requests presented the same refresh token, both passed the stored
\* check before either saved, and both have completed
RefreshedTogether(q1, q2) ==
    /\ q1 # q2
    /\ flight[q1].op = "refresh" /\ flight[q2].op = "refresh"
    /\ flight[q1].refreshToken = flight[q2].refreshToken
    /\ flight[q1].pc = "done" /\ flight[q2].pc = "done"
    /\ flight[q1].code = 200 /\ flight[q2].code = 200
    /\ \A q \in DOMAIN flight \ {q1, q2} : flight[q].code = 401 /\ flight[q].pc = "done"

\* C29 as stated: after two concurrent refreshes with the same token have
\* completed, the principal stores the refresh token of one of them, and
\* the refresh token issued to the other one does not pass the exact-match
\* check of the refresh path.
C29_AsStated ==
    \A q1, q2 \in DOMAIN flight :
        RefreshedTogether(q1, q2) =>
            \E last \in {q1, q2}, other \in {q1, q2} :
                /\ last # other
                /\ store[flight[last].who.id].refreshToken = flight[last].tokens.refreshToken
                /\ ~PassesRefreshValidation(store, now, flight[other].tokens.refreshToken)

\* The part that holds: the stored token is the one written last, whenever
\* the two requests were issued different tokens
LastWriteWinsAcrossSeconds ==
    \A q1, q2 \in DOMAIN flight :
        (RefreshedTogether(q1, q2) /\ flight[q1].tokens.refreshToken # flight[q2].tokens.refreshToken) =>
            \E last \in {q1, q2}, other \in {q1, q2} :
                /\ last # other
                /\ store[flight[last].who.id].refreshToken = flight[last].tokens.refreshToken
                /\ ~PassesRefreshValidation(store, now, flight[other].tokens.refreshToken)

\* The request q is answered in this step
Ends(q) == (q \notin DOMAIN flight \/ flight[q].pc # "done") /\ flight'[q].pc = "done"

\* The tokens come from one call of issueTokens
OnePair(tokens) ==
    /\ tokens.refreshToken # NoToken
    /\ tokens.accessToken.iat = tokens.refreshToken.iat
    /\ tokens.accessToken.id = tokens.refreshToken.id
    /\ tokens.accessToken.key = tokens.refreshToken.key

\* C30: a run of the refresh path that ends in a rejection or an error
\* leaves every principal's stored refresh token and expiry as they were and
\* sets no cookies; a run that ends in a successful refresh stores the
\* refresh token and the expiry of one newly issued pair and sets both
\* cookies from that same pair; nothing is stored by a run at any other
\* moment.
C30_NoPartialPersist ==
    [][/\ store' # store => \E q \in DOMAIN flight' : Ends(q) /\ flight'[q].code = 200
       /\ \A q \in DOMAIN flight' :
            Ends(q) =>
                IF flight'[q].code = 200
                THEN LET r == flight'[q]
                     IN  /\ OnePair(r.tokens)
                         /\ store'[r.who.id].refreshToken = r.tokens.refreshToken
                         /\ store'[r.who.id].refreshTokenExpires = r.tokens.refreshExpires
                         /\ r.cookies = setAuthCookies(r.tokens.accessToken, r.tokens.refreshToken)
                         /\ \A p \in DOMAIN store \ {r.who.id} : store'[p] = store[p]
                ELSE /\ store' = store
                     /\ flight'[q].cookies.headers # "set"]_vars

\* A refresh has succeeded after the clock moved, and another request has
\* been rejected
C30_Witness ==
    \E q1, q2 \in DOMAIN flight :
        /\ flight[q1].pc = "done" /\ flight[q1].code = 200
        /\ flight[q1].tokens.refreshToken # flight[q1].refreshToken
        /\ store[flight[q1].who.id].refreshToken = flight[q1].tokens.refreshToken
        /\ flight[q2].pc = "done" /\ flight[q2].code = 401
        /\ flight[q2].who # NoEntity

-----------------------------------------------------------------------------
(* The identity authenticate attaches to the request                        *)

\* req.user = buildUserPayload(entity, type) of the run being answered
ReqUser ==
    buildUserPayload(sess.user, IF sess.user \in AuthOrgs THEN "organization" ELSE "user")

\* req.user.permissions || [] as the permission gate reads it
GateReads(user) == IF "permissions" \in DOMAIN user THEN user.permissions ELSE {}

\* C31 as stated: whenever authenticate calls next() with an identity,
\* through the access token or through a refresh, req.user carries the
\* principal's permission set: for a member the permissions of its role.
C31_AsStated ==
    (sess.op = "authenticate" /\ sess.code = 0 /\ sess.user # Missing) =>
        /\ "permissions" \in DOMAIN ReqUser
        /\ sess.user \in DOMAIN members => GateReads(ReqUser) = FreshPermissions(roles, members, sess.user)

-----------------------------------------------------------------------------
(* resolveEntity on the payloads a cookie can carry                         *)

\* jwt.decode(token) of a cookie: unverified, so any id with any userType
DecodedPayloads ==
    {[Forged EXCEPT !.id = id, !.userType = userType] :
        id \in AuthOrgs \cup AuthUsers \cup ClientIds \cup {"nobody"},
        userType \in {"organization", "user", "client", Missing}}

\* await resolveEntity(decoded), its result kept with the payload
ResolveEntityAction ==
    /\ sess = NoSess
    /\ \E decoded \in DecodedPayloads :
            sess' = Answer("resolveEntity", Missing, FALSE, decoded, NoToken, 0, resolveEntity(decoded).type, resolveEntity(decoded).id, "none", "none")
    /\ UNCHANGED <<tasks, requirements, resp, gate, sync, store, now, ticks, issued, logins, revoked, roleVars, raceVars>>

NextResolve ==
    \/ ResolveEntityAction
    \/ LoginAction
    \/ LogoutAction
    \/ SessionDeliver

SpecResolve == InitAuth /\ [][NextResolve]_vars

\* The principals of one kind
OfKind(kind) ==
    CASE kind = "organization" -> AuthOrgs
      [] kind = "user" -> AuthUsers
      [] kind = "client" -> ClientIds
      [] OTHER -> {}

\* The answer the claim describes: with a discriminator, the principal of
\* that kind or nothing; without one, the first match in the order
\* organization, user, client
ResolvedAsStated(decoded) ==
    IF decoded.userType # Missing
    THEN IF decoded.id \in OfKind(decoded.userType) THEN [id |-> decoded.id, type |-> decoded.userType] ELSE NoEntity
    ELSE IF decoded.id \in AuthOrgs THEN [id |-> decoded.id, type |-> "organization"]
    ELSE IF decoded.id \in AuthUsers THEN [id |-> decoded.id, type |-> "user"]
    ELSE IF decoded.id \in ClientIds THEN [id |-> decoded.id, type |-> "client"]
    ELSE NoEntity

\* C32 as stated: with a kind discriminator in the decoded token the
\* resolver returns the principal of that kind or NotFound, never a
\* principal of another kind; without one it returns the first match in the
\* order Owner, Member, Client.
C32_AsStated ==
    sess.op = "resolveEntity" =>
        [id |-> sess.user, type |-> sess.message] = ResolvedAsStated(sess.accessToken)

\* The part that holds: with the discriminator "user" or "organization"
\* the lookup stays within that kind
KnownKindsStayApart ==
    (sess.op = "resolveEntity" /\ sess.accessToken.userType \in {"user", "organization"}) =>
        [id |-> sess.user, type |-> sess.message] = ResolvedAsStated(sess.accessToken)

-----------------------------------------------------------------------------
(* POST /update next to POST /move, one database call at a time             *)

\* An /update request past authenticate and the two gates
EditRequest(user, taskId, title, description, assignedTo) ==
    [op |-> "update", pc |-> "findOne", user |-> user, taskId |-> taskId, title |-> title, description |-> description, assignedTo |-> assignedTo, task |-> NoTask, code |-> 0]

\* task.save() after the assignments of /update: $set of the paths that
\* were assigned, on the document as it is in the collection
SaveEdit(persisted, r) ==
    [persisted EXCEPT !.title = IF r.title = Missing THEN @ ELSE Trim(r.title),
                      !.description = IF r.description = Missing THEN @ ELSE Trim(r.description),
                      !.assignedTo = IF r.assignedTo = {Missing} THEN @ ELSE ValidIds(r.user.organizationId, r.assignedTo)]

EditArrives ==
    /\ \E q \in RaceIds \ DOMAIN flight,
          user \in {OwnerIdentity("orgA", {}), MemberIdentity("u1", {"PAGE_TASKS"})},
          taskId \in TaskIds \cup {Missing},
          body \in {<<" New ", Missing, {Missing}>>, <<Missing, "d", {"u1"}>>, <<"  ", Missing, {Missing}>>} :
            LET guard == GateChain(user, <<"PAGE_TASKS", "TASK_EDIT">>)
                request == EditRequest(user, taskId, body[1], body[2], body[3])
                code == IF guard # 0 THEN guard ELSE IF taskId = Missing THEN 400 ELSE 0
            IN  flight' = [p \in DOMAIN flight \cup {q} |->
                              IF p # q THEN flight[p]
                              ELSE IF code = 0 THEN request
                              ELSE [request EXCEPT !.pc = "done", !.code = code]]
    /\ UNCHANGED tasks
    /\ UNCHANGED moveRest

\* await Task.findOne(...), then the test for DONE and the checks of the body
EditFindOne ==
    /\ \E q \in At("update", "findOne") :
            LET r == flight[q]
                task == FindTask(tasks, r.taskId, r.user.organizationId)
            IN  flight' = [flight EXCEPT ![q] =
                              IF task = NoTask THEN Answered(q, 404)
                              ELSE IF ~Editable(task) THEN Answered(q, 400)
                              ELSE IF r.title # Missing /\ Trim(r.title) = "" THEN Answered(q, 400)
                              ELSE [r EXCEPT !.pc = "save", !.task = task]]
    /\ UNCHANGED tasks
    /\ UNCHANGED moveRest

\* await task.save(), then the response
EditSave ==
    /\ \E q \in At("update", "save") :
            /\ tasks' = [tasks EXCEPT ![flight[q].taskId] = SaveEdit(@, flight[q])]
            /\ flight' = [flight EXCEPT ![q] = Answered(q, 200)]
    /\ UNCHANGED moveRest

\* A task that was sent to the client
InitEditRace ==
    /\ tasks = [t \in TaskIds |-> FullTask(TaskAt("SENT_TO_CLIENT"), "A", "", {})]
    /\ requirements = << >>
    /\ resp = NoResp
    /\ gate = NoGate
    /\ sync = NoSync
    /\ RaceAtRest
    /\ RolesAtRest
    /\ AuthAtRest

NextEditRace ==
    \/ EditArrives
    \/ EditFindOne
    \/ EditSave
    \/ MoveArrives
    \/ MoveFindOne
    \/ MoveSave
    \/ MoveSync

SpecEditRace == InitEditRace /\ [][NextEditRace]_vars

\* C33 as stated: no step changes the title, the description or the
\* assignees of a task whose stored status is DONE.
C33_AsStated ==
    [][\A t \in DOMAIN tasks :
            tasks[t].status = "DONE" =>
                /\ tasks'[t].title = tasks[t].title
                /\ tasks'[t].description = tasks[t].description
                /\ tasks'[t].assignedTo = tasks[t].assignedTo]_vars

-----------------------------------------------------------------------------
(* The history of a task as a chain                                         *)

\* The record is an edge of the transition table
IsEdge(record) ==
    /\ record.from \in DOMAIN TRANSITIONS
    /\ \E i \in 1..Len(TRANSITIONS[record.from]) : TRANSITIONS[record.from][i].to = record.to

\* C34 as stated: in every reachable state the history of each task is a
\* chain that starts at TODO, whose every record is an edge of the
\* transition table and starts where the record before it ended, and that
\* ends at the task's status; without history the status is TODO.
C34_AsStated ==
    \A t \in DOMAIN tasks :
        LET h == tasks[t].history
        IN  /\ (h = << >>) <=> (tasks[t].status = "TODO")
            /\ h # << >> => (h[1].from = "TODO" /\ h[Len(h)].to = tasks[t].status)
            /\ \A i \in 2..Len(h) : h[i].from = h[i - 1].to
            /\ \A i \in 1..Len(h) : IsEdge(h[i])

-----------------------------------------------------------------------------
(* POST /update-status of the requirement routes and the steps of           *)
(* syncRequirementStatus, one database call at a time                       *)

CloseRequest(user, requirementId, status) ==
    [op |-> "update-status", pc |-> "findOne", user |-> user, requirementId |-> requirementId, status |-> status, requirement |-> NoEntity, code |-> 0]

\* The locals of syncRequirementStatus: the documents Requirement.find
\* returned, the ones the loop has not visited, and the one being saved
SyncLocals(taskId, found) ==
    [op |-> "sync", pc |-> "taskFind", taskId |-> taskId, found |-> found, todo |-> DOMAIN found, current |-> Missing, decided |-> Missing, code |-> 0]

\* requirement.save() / req.save() of a document whose status was assigned:
\* $set of status on the document as it is in the collection, nothing when
\* the assigned value is the one that was read
SaveRequirement(persisted, local, status) ==
    IF status = local.status THEN persisted ELSE [persisted EXCEPT !.status = status]

\* The gate and the body checks of /update-status
CloseArrives ==
    /\ \E q \in RaceIds \ DOMAIN flight,
          user \in {OwnerIdentity("orgA", {}), MemberIdentity("u1", {})},
          requirementId \in ReqIds \cup {"r404"},
          status \in {"CLOSED", Missing} :
            LET guard == GateChain(user, <<"PAGE_CLIENTS">>)
                request == CloseRequest(user, requirementId, status)
                code == IF guard # 0 THEN guard
                        ELSE IF status \notin Range(VALID_REQ_STATUSES) THEN 400
                        ELSE 0
            IN  flight' = [p \in DOMAIN flight \cup {q} |->
                              IF p # q THEN flight[p]
                              ELSE IF code = 0 THEN request
                              ELSE [request EXCEPT !.pc = "done", !.code = code]]
    /\ UNCHANGED <<tasks, requirements>>
    /\ UNCHANGED <<resp, gate, sync, authVars, roleVars, cache>>

\* await Requirement.findOne({ _id: requirementId, organizationId })
CloseFindOne ==
    /\ \E q \in At("update-status", "findOne") :
            LET r == flight[q]
            IN  flight' = [flight EXCEPT ![q] =
                              IF ~FindRequirement(requirements, r.requirementId, r.user.organizationId) THEN Answered(q, 404)
                              ELSE [r EXCEPT !.pc = "save", !.requirement = requirements[r.requirementId]]]
    /\ UNCHANGED <<tasks, requirements>>
    /\ UNCHANGED <<resp, gate, sync, authVars, roleVars, cache>>

\* requirement.status = status; await requirement.save(), then the response
CloseSave ==
    /\ \E q \in At("update-status", "save") :
            LET r == flight[q]
            IN  /\ requirements' = [requirements EXCEPT ![r.requirementId] = SaveRequirement(@, r.requirement, r.status)]
                /\ flight' = [flight EXCEPT ![q] = Answered(q, 200)]
    /\ UNCHANGED tasks
    /\ UNCHANGED <<resp, gate, sync, authVars, roleVars, cache>>

\* await Requirement.find({ linkedTaskIds: taskId }), once the transition
\* has been saved
SyncFind ==
    /\ \E q \in At("move", "sync") :
            LET found == [r \in Matched(requirements, flight[q].taskId) |-> requirements[r]]
            IN  flight' = [flight EXCEPT ![q] =
                              IF DOMAIN found = {} THEN Answered(q, 200)
                              ELSE SyncLocals(flight[q].taskId, found)]
    /\ UNCHANGED <<tasks, requirements>>
    /\ UNCHANGED <<resp, gate, sync, authVars, roleVars, cache>>

\* One iteration up to its save: the guard on the document that was found,
\* await Task.find(...) and the decision
SyncTaskFind ==
    /\ \E q \in At("sync", "taskFind") :
            LET r == flight[q]
            IN  \E id \in r.todo :
                    LET status == SyncOne(r.found[id], tasks)
                        rest == r.todo \ {id}
                    IN  flight' = [flight EXCEPT ![q] =
                                      IF status # r.found[id].status THEN [r EXCEPT !.pc = "reqSave", !.current = id, !.decided = status]
                                      ELSE IF rest = {} THEN Answered(q, 200)
                                      ELSE [r EXCEPT !.todo = rest]]
    /\ UNCHANGED <<tasks, requirements>>
    /\ UNCHANGED <<resp, gate, sync, authVars, roleVars, cache>>

\* req.status = ...; await req.save(), with the status that was decided on
\* the document found and the linked tasks as Task.find returned them
SyncReqSave ==
    /\ \E q \in At("sync", "reqSave") :
            LET r == flight[q]
                rest == r.todo \ {r.current}
            IN  /\ requirements' = [requirements EXCEPT ![r.current] = SaveRequirement(@, r.found[r.current], r.decided)]
                /\ flight' = [flight EXCEPT ![q] =
                                  IF rest = {} THEN Answered(q, 200)
                                  ELSE [r EXCEPT !.pc = "taskFind", !.todo = rest, !.current = Missing, !.decided = Missing]]
    /\ UNCHANGED tasks
    /\ UNCHANGED <<resp, gate, sync, authVars, roleVars, cache>>

\* A task that was sent to the client, and the requirement it was created
\* for, which the link step of POST /api/tasks moved to IN_PROGRESS
InitCloseRace ==
    /\ tasks = [t \in TaskIds |-> TaskAt("SENT_TO_CLIENT")]
    /\ requirements = [r \in ReqIds |-> [organizationId |-> "orgA", clientId |-> "c1", status |-> "IN_PROGRESS", linkedTaskIds |-> TaskIds]]
    /\ resp = NoResp
    /\ gate = NoGate
    /\ sync = NoSync
    /\ RaceAtRest
    /\ RolesAtRest
    /\ AuthAtRest

NextCloseRace ==
    \/ CloseArrives
    \/ CloseFindOne
    \/ CloseSave
    \/ MoveArrives
    \/ MoveFindOne
    \/ MoveSave
    \/ SyncFind
    \/ SyncTaskFind
    \/ SyncReqSave

SpecCloseRace == InitCloseRace /\ [][NextCloseRace]_vars

\* C35 as stated: in every interleaving of manual closes with the syncs of
\* task transitions, a requirement whose stored status is CLOSED keeps it
\* in every step.
C35_AsStated ==
    [][\A r \in DOMAIN requirements :
            requirements[r].status = "CLOSED" => requirements'[r].status = "CLOSED"]_vars

-----------------------------------------------------------------------------
(* Permission resolutions next to a role update, one awaited call at a time *)

ResolveRequest(id) ==
    [op |-> "resolve", pc |-> "get", id |-> id, permissions |-> {}, code |-> 0]

RoleUpdateRequest(user, roleId, permissions) ==
    [op |-> "role-update", pc |-> "findOne", user |-> user, roleId |-> roleId, permissions |-> permissions, code |-> 0]

\* A resolution starts for a member
ResolveArrives ==
    /\ \E q \in RaceIds \ DOMAIN flight, id \in UserIds :
            flight' = [p \in DOMAIN flight \cup {q} |-> IF p = q THEN ResolveRequest(id) ELSE flight[p]]
    /\ UNCHANGED <<roles, members, cache>>
    /\ UNCHANGED restVars

\* await cacheGet("perms:" + id): a hit is the answer
ResolveGet ==
    /\ \E q \in At("resolve", "get") :
            LET cached == cacheGet(cache, flight[q].id)
            IN  flight' = [flight EXCEPT ![q] =
                              IF cached # NoEntry THEN [Answered(q, 200) EXCEPT !.permissions = cached]
                              ELSE [flight[q] EXCEPT !.pc = "read"]]
    /\ UNCHANGED <<roles, members, cache>>
    /\ UNCHANGED restVars

\* On a miss, the role documents are read
ResolveRead ==
    /\ \E q \in At("resolve", "read") :
            flight' = [flight EXCEPT ![q] = [flight[q] EXCEPT !.pc = "set", !.permissions = FreshPermissions(roles, members, flight[q].id)]]
    /\ UNCHANGED <<roles, members, cache>>
    /\ UNCHANGED restVars

\* await cacheSet("perms:" + id, permissions, 300), then the answer
ResolveSet ==
    /\ \E q \in At("resolve", "set") :
            /\ cache' = cacheSet(cache, flight[q].id, flight[q].permissions)
            /\ flight' = [flight EXCEPT ![q] = Answered(q, 200)]
    /\ UNCHANGED <<roles, members>>
    /\ UNCHANGED restVars

\* The gates and the body check of POST /update of the role routes
RoleUpdateArrives ==
    /\ \E q \in RaceIds \ DOMAIN flight,
          user \in {CacheOwner, MemberIdentity("u1", {})},
          roleId \in {"rCustom", "rMember", Missing},
          permissions \in {{"p2"}, {"p1"}} :
            LET guard == GateChain(user, <<"PAGE_SETTINGS", "ROLE_MANAGE">>)
                request == RoleUpdateRequest(user, roleId, permissions)
                code == IF guard # 0 THEN guard ELSE IF roleId = Missing THEN 400 ELSE 0
            IN  flight' = [p \in DOMAIN flight \cup {q} |->
                              IF p # q THEN flight[p]
                              ELSE IF code = 0 THEN request
                              ELSE [request EXCEPT !.pc = "done", !.code = code]]
    /\ UNCHANGED <<roles, members, cache>>
    /\ UNCHANGED restVars

\* await Role.findOne({ _id: roleId, organizationId }), the test for the
\* system OWNER role and await Permission.find(...)
RoleUpdateFindOne ==
    /\ \E q \in At("role-update", "findOne") :
            LET r == flight[q]
                role == FindRole(roles, r.roleId, r.user.organizationId)
            IN  flight' = [flight EXCEPT ![q] =
                              IF role = NoRole THEN Answered(q, 404)
                              ELSE IF role.isSystem /\ role.name = "OWNER" THEN Answered(q, 403)
                              ELSE [r EXCEPT !.pc = "save", !.permissions = @ \cap PermIds]]
    /\ UNCHANGED <<roles, members, cache>>
    /\ UNCHANGED restVars

\* await role.save(): $set of the permissions
RoleUpdateSave ==
    /\ \E q \in At("role-update", "save") :
            /\ roles' = [roles EXCEPT ![flight[q].roleId].permissions = flight[q].permissions]
            /\ flight' = [flight EXCEPT ![q].pc = "invalidate"]
    /\ UNCHANGED <<members, cache>>
    /\ UNCHANGED restVars

\* await cacheDelPattern("perms:*"), then Role.findById and the response
RoleUpdateInvalidate ==
    /\ \E q \in At("role-update", "invalidate") :
            /\ cache' = cacheDelPattern(cache, UserIds)
            /\ flight' = [flight EXCEPT ![q] = Answered(q, 200)]
    /\ UNCHANGED <<roles, members>>
    /\ UNCHANGED restVars

NextCacheRace ==
    \/ ResolveArrives
    \/ ResolveGet
    \/ ResolveRead
    \/ ResolveSet
    \/ RoleUpdateArrives
    \/ RoleUpdateFindOne
    \/ RoleUpdateSave
    \/ RoleUpdateInvalidate

\* The cache answers throughout
SpecCacheRace == InitCache /\ [][NextCacheRace]_vars

\* Every role update that has arrived has run its invalidation
UpdatesCompleted == \A q \in DOMAIN flight : flight[q].op = "role-update" => flight[q].pc = "done"

\* C36 as stated: once the role updates have completed, the cache holds no
\* entry with a permission set other than the one the role documents give
\* the member, under any interleaving of resolutions with the updates.
C36_AsStated ==
    UpdatesCompleted =>
        \A id \in DOMAIN cache.entries : cache.entries[id] = FreshPermissions(roles, members, id)

-----------------------------------------------------------------------------
(* Requests with tokens of an earlier session                               *)

\* authenticate called next() for a principal
Authenticated == sess.op = "authenticate" /\ sess.code = 0 /\ sess.user # Missing

\* The refresh token the principal had stored when the request came
StoredBefore == sess.before[sess.user].refreshToken

\* C37 as stated: a request is authenticated only if it carries the
\* principal's stored refresh token, or an access token issued together
\* with it; after a logout, a later login or a rotation, tokens of before
\* authenticate nobody.
C37_AsStated ==
    Authenticated =>
        \/ sess.refreshToken # NoToken /\ sess.refreshToken = StoredBefore
        \/ StoredBefore # NoToken /\ sess.accessToken # NoToken /\ sess.accessToken.iat = StoredBefore.iat

\* C37 amended: a request is authenticated only if it carries the
\* principal's stored refresh token, or no refresh cookie and an access
\* token that verifies against the principal's public key and has not
\* expired.
C37_StaleRefreshCookieNeverAuthenticates ==
    Authenticated =>
        \/ sess.refreshToken # NoToken /\ sess.refreshToken = StoredBefore
        \/ sess.refreshToken = NoToken /\ sess.path = "access" /\ AccessTokenVerifies(sess.before, now, sess.accessToken)

\* After a logout, the access token of the session authenticates without a
\* refresh cookie
C37_Witness ==
    /\ Authenticated
    /\ StoredBefore = NoToken
    /\ sess.refreshToken = NoToken
    /\ sess.accessToken \in sess.issuedBefore

-----------------------------------------------------------------------------
(* The role label of the identity the guard establishes                     *)

\* buildUserPayload that labels every principal OWNER
PayloadRoleAlwaysOwner(ms, id, type) == "OWNER"

\* The role of buildUserPayload(entity, type), read from the document:
\* entity.role || "MEMBER" for a user, "OWNER" for anything else
PayloadRole(ms, id, type) ==
    IF type = "user"
    THEN IF ms[id].role = Missing THEN "MEMBER" ELSE ms[id].role
    ELSE "OWNER"

\* The tokens POST /accept-invite of the portal issues for client c1, with
\* the payload buildUserPayload(client, "client") and the client's key
PortalTokens == issueTokens(generateKeys("c1").privateKey, buildUserPayload("c1", "client"), FALSE, 0)

\* authenticate with the cookies of a portal client
PortalAuthenticateAction ==
    /\ sess = NoSess
    /\ \E accessToken \in {PortalTokens.accessToken, NoToken}, refreshToken \in {PortalTokens.refreshToken, NoToken} :
            Authenticate(accessToken, refreshToken)
    /\ UNCHANGED <<tasks, requirements, resp, gate, sync, revoked, roleVars, raceVars>>

\* POST /api/users/update with a role in the body
MemberRoleUpdate ==
    /\ resp = NoResp
    /\ \E user \in {CacheOwner, MemberIdentity("u1", {})}, userId \in AuthUsers, role \in {Missing, "MEMBER", "OWNER"} :
            UserUpdate(user, userId, Missing, role, Missing)
    /\ UNCHANGED <<tasks, requirements, gate, sync, authVars, raceVars>>

NextIdentity ==
    \/ LoginAction
    \/ AuthenticateAction
    \/ PortalAuthenticateAction
    \/ MemberRoleUpdate
    \/ Deliver
    \/ SessionDeliver

SpecIdentity == InitAuth /\ [][NextIdentity]_vars

\* req.user as the guard sets it for the principal it resolved
Established ==
    LET type == IF sess.user \in AuthOrgs THEN "organization" ELSE "user"
    IN  [buildUserPayload(sess.user, type) EXCEPT !.role = PayloadRole(members, sess.user, type)]

\* requirePermission(p) on an identity with the permissions perms
Gate(user, perms, p) ==
    RequirePermission([id |-> user.id, role |-> user.role, permissions |-> perms,
                       organizationId |-> user.organizationId, userType |-> user.userType, clientId |-> Missing], {p})

-----------------------------------------------------------------------------
(* Task operations that touch the link between tasks and a requirement      *)

LinkTaskIds == {"t1", "t2"}

\* The _id Task.create gives the new document: an id no document has (an id
\* freed by a delete is referenced nowhere, so giving it again changes
\* nothing)
FreeTaskIds == {t \in LinkTaskIds : tasks[t] = NoTask}

\* The link step of POST /api/tasks on the requirement it found
LinkTask(req, taskId) ==
    [req EXCEPT !.linkedTaskIds = @ \cup {taskId},
                !.status = IF @ = "OPEN" THEN "IN_PROGRESS" ELSE @]

\* router.post("/", authenticate, requirePermission("TASK_CREATE"),
\* requirePermission("PAGE_TASKS"), ...) with the body { clientId, title,
\* requirementId }; taskId is the _id of the document it creates
Create(user, clientId, title, requirementId, taskId) ==
    LET guard == GateChain(user, <<"TASK_CREATE", "PAGE_TASKS">>)
        org == user.organizationId
        R(code, kind) == OpsReply("create", user, taskId, <<clientId, title, requirementId>>, code, kind, {})
        found == /\ requirementId \in DOMAIN requirements
                 /\ requirements[requirementId].organizationId = org
                 /\ requirements[requirementId].clientId = clientId
    IN  IF guard # 0 THEN
            /\ resp' = R(guard, "Forbidden")
            /\ UNCHANGED <<tasks, requirements>>
        ELSE IF clientId = Missing \/ title = Missing \/ Trim(title) = "" THEN
            /\ resp' = R(400, "ValidationError")
            /\ UNCHANGED <<tasks, requirements>>
        ELSE IF ~(clientId \in ClientIds /\ ClientOrg[clientId] = org) THEN
            /\ resp' = R(404, "NotFound")
            /\ UNCHANGED <<tasks, requirements>>
        ELSE
            /\ tasks' = [tasks EXCEPT ![taskId] = NewTask(org, clientId, user.id, {})]
            /\ requirements' = IF requirementId # Missing /\ found
                               THEN [requirements EXCEPT ![requirementId] = LinkTask(@, taskId)]
                               ELSE requirements
            /\ resp' = R(201, "OK")

CreateAction ==
    /\ resp = NoResp
    /\ \E user \in {OwnerIdentity("orgA", {}), MemberIdentity("u1", {"PAGE_TASKS"})},
          clientId \in ClientIds \cup {"c404", Missing},
          title \in {" New ", "  "},
          requirementId \in ReqIds \cup {Missing},
          taskId \in FreeTaskIds :
            Create(user, clientId, title, requirementId, taskId)
    /\ UNCHANGED <<gate, sync, authVars, roleVars, raceVars>>

\* The calls of syncRequirementStatus run to their end: no database call
\* of theirs fails
SyncCompletes == sync' # NoSync => ~sync'.failed

LinkMoveAction ==
    /\ resp = NoResp
    /\ \E user \in {OwnerIdentity("orgA", {}), MemberIdentity("u1", {})},
          taskId \in LinkTaskIds, targetStatus \in Range(VALID_TASK_STATUSES) :
            Move(user, taskId, targetStatus)
    /\ SyncCompletes

LinkRespondAction ==
    /\ resp = NoResp
    /\ \E user \in ClientIdentities, taskId \in LinkTaskIds, decision \in {"DONE", "REVISION", Missing} :
            Respond(user, taskId, decision, Missing)
    /\ SyncCompletes

LinkDeleteAction ==
    /\ resp = NoResp
    /\ \E user \in {OwnerIdentity("orgA", {}), MemberIdentity("u1", {"PAGE_TASKS"})}, taskId \in LinkTaskIds \cup {Missing} :
            Delete(user, taskId)

\* A requirement the client has submitted, and no task yet
InitLink ==
    /\ tasks = [t \in LinkTaskIds |-> NoTask]
    /\ requirements = [r \in ReqIds |-> [organizationId |-> "orgA", clientId |-> "c1", status |-> "OPEN", linkedTaskIds |-> {}]]
    /\ resp = NoResp
    /\ gate = NoGate
    /\ sync = NoSync
    /\ RaceAtRest
    /\ RolesAtRest
    /\ AuthAtRest

NextLink ==
    \/ CreateAction
    \/ LinkMoveAction
    \/ LinkRespondAction
    \/ LinkDeleteAction
    \/ Deliver

SpecLink == InitLink /\ [][NextLink]_vars

\* The linked tasks of a requirement that exist
LinkedTasks(req) == {t \in req.linkedTaskIds : t \in DOMAIN tasks /\ tasks[t] # NoTask}

AllLinkedDone(req) == LinkedTasks(req) # {} /\ \A t \in LinkedTasks(req) : tasks[t].status = "DONE"

\* C39 as stated: with no request in progress, a COMPLETED requirement has
\* a linked task and all its linked tasks are DONE.
C39_AsStated ==
    resp = NoResp =>
        \A r \in DOMAIN requirements :
            requirements[r].status = "COMPLETED" => AllLinkedDone(requirements[r])

\* C40 as stated: with no request in progress, a requirement that is not
\* CLOSED, has a linked task and whose linked tasks are all DONE is
\* COMPLETED.
C40_AsStated ==
    resp = NoResp =>
        \A r \in DOMAIN requirements :
            (requirements[r].status # "CLOSED" /\ AllLinkedDone(requirements[r]))
                => requirements[r].status = "COMPLETED"

\* What does hold: right after a transition's sync, the requirements linked
\* to the moved task have the status its rules derive
SyncedAfterTransition ==
    (resp # NoResp /\ resp.op \in {"move", "respond"} /\ resp.code = 200) =>
        \A r \in Matched(requirements, resp.taskId) :
            /\ AllLinkedDone(requirements[r]) => requirements[r].status = "COMPLETED"
            /\ requirements[r].status = "COMPLETED" => AllLinkedDone(requirements[r])

====
